---- MODULE Spec2Model ----
(***************************************************************************)
(* A model of the coverage client of go-coverage-http (client/client.go):  *)
(* pod discovery, the port-forward tunnel, collection of the two coverage  *)
(* blobs, and the text-report transformations (filter, path remapping).    *)
(*                                                                         *)
(* Go strings are modelled as sequences of one-character strings, byte     *)
(* slices as sequences of numbers 0..255, and base64 text as sequences of  *)
(* alphabet indices 0..63 with 64 standing for the padding character '='.  *)
(***************************************************************************)
EXTENDS Integers, Sequences, FiniteSets, TLC

VARIABLES
    \* ---- Pod Locator -------------------------------------------------
    podItems,       \* pods.Items: what the List call answers for the selector
    locCalled,      \* whether GetPodNameWithContext has returned
    locListOk,      \* whether the List call of that invocation succeeded
    locName,        \* the returned pod name
    locErr          \* the returned error

locVars == <<podItems, locCalled, locListOk, locName, locErr>>

VARIABLES
    \* ---- Artifact Collector ------------------------------------------
    colDirs,        \* the directories that exist on the client's disk
    colFiles,       \* the blob files on disk: path -> bytes
    colCalled,      \* whether collectCoverageFromURL has returned
    colTest,        \* its testName argument
    colResp,        \* the HTTP response it received
    colErr,         \* the error it returned
    colDirs0,       \* colDirs when it was called
    colFiles0       \* colFiles when it was called

colVars == <<colDirs, colFiles, colCalled, colTest, colResp, colErr,
             colDirs0, colFiles0>>

VARIABLES
    \* ---- Text reports: filter and path remapping ---------------------
    localTree,        \* the files on the local disk (absolute paths)
    sourceDir,        \* CoverageClient.sourceDir
    enablePathRemap,  \* CoverageClient.enablePathRemap
    defaultFilters,   \* CoverageClient.defaultFilters
    covOut,           \* <testDir>/coverage.out
    fltOut,           \* <testDir>/coverage_filtered.out
    lastGen,          \* the last GenerateCoverageReport call
    lastFlt,          \* the last FilterCoverageReport call
    lastPass,         \* the last remapCoveragePaths pass
    prevPass,         \* the pass before it, when it rewrote the report
    passes,           \* direct remapCoveragePaths calls so far
    htmlOut,          \* <testDir>/coverage.html exists
    lastProc,         \* the last ProcessCoverageReports call
    fltLog            \* the SetDefaultFilters / AddDefaultFilter calls so far

repVars == <<localTree, sourceDir, enablePathRemap, defaultFilters, covOut,
             fltOut, lastGen, lastFlt, lastPass, prevPass, passes, htmlOut,
             lastProc, fltLog>>

VARIABLES
    \* ---- Transport Session: CollectCoverageFromPodWithContainer ------
    tunPc,        \* where the calling goroutine is
    tunFwd,       \* where the goroutine running forwarder.ForwardPorts is
    tunReady,     \* readyChan is closed
    tunStops,     \* number of close(stopChan) executed
    tunOpen,      \* how setupPortForward returned
    tunPort,      \* the local port it returned
    tunFwdAtRet,  \* tunFwd at the moment setupPortForward returned
    tunCall,      \* how CollectCoverageFromPodWithContainer returned
    tunMeta,      \* how savePodMetadata ended
    tunCtx,       \* the caller's context is cancelled or past its deadline
    tunReq,       \* the coverage HTTP request has been sent
    tunWrites     \* the files of the test directory the call has written

tunVars == <<tunPc, tunFwd, tunReady, tunStops, tunOpen, tunPort,
             tunFwdAtRet, tunCall, tunMeta, tunCtx, tunReq, tunWrites>>

VARIABLES
    \* ---- Two collections run concurrently on one client --------------
    conDirs,      \* directories of the disk they share
    conFiles,     \* files of that disk: path -> bytes
    conProc       \* per collection: position, test name, response, error,
                  \* the paths it wrote

conVars == <<conDirs, conFiles, conProc>>

vars == <<locVars, colVars, repVars, tunVars, conVars>>

----------------------------------------------------------------------------
(* Go string helpers                                                        *)

\* strings.HasPrefix
HasPrefix(s, p) == Len(p) <= Len(s) /\ SubSeq(s, 1, Len(p)) = p

\* strings.HasSuffix
HasSuffix(s, p) ==
    Len(p) <= Len(s) /\ SubSeq(s, Len(s) - Len(p) + 1, Len(s)) = p

\* strings.Index: the position of the first occurrence of p in s, 0 if none
\* (Go counts from 0 and answers -1; positions here count from 1).
StrIndex(s, p) ==
    LET hits == {i \in 1..(Len(s) - Len(p) + 1) : SubSeq(s, i, i + Len(p) - 1) = p}
    IN  IF hits = {} THEN 0 ELSE CHOOSE i \in hits : \A j \in hits : i <= j

\* strings.Contains
Contains(s, p) == StrIndex(s, p) # 0

\* strings.Split(s, sep) for a one-character separator
RECURSIVE Split(_, _)
Split(s, sep) ==
    LET i == StrIndex(s, sep)
    IN  IF i = 0 THEN <<s>>
        ELSE <<SubSeq(s, 1, i - 1)>> \o Split(SubSeq(s, i + 1, Len(s)), sep)

\* strings.SplitN(s, sep, 2)
SplitN2(s, sep) ==
    LET i == StrIndex(s, sep)
    IN  IF i = 0 THEN <<s>>
        ELSE <<SubSeq(s, 1, i - 1), SubSeq(s, i + 1, Len(s))>>

\* strings.Join
RECURSIVE StrJoin(_, _)
StrJoin(parts, sep) ==
    IF Len(parts) = 0 THEN <<>>
    ELSE IF Len(parts) = 1 THEN parts[1]
    ELSE parts[1] \o sep \o StrJoin(Tail(parts), sep)

\* strings.Replace(s, old, new, 1)
ReplaceFirst(s, old, new) ==
    LET i == StrIndex(s, old)
    IN  IF i = 0 THEN s
        ELSE SubSeq(s, 1, i - 1) \o new \o SubSeq(s, i + Len(old), Len(s))

----------------------------------------------------------------------------
(* Paths (package path/filepath, Unix)                                      *)

Sl == <<"/">>
Dot == <<".">>
DotDot == <<".", ".">>

\* The element loop of filepath.Clean: empty and "." elements are dropped,
\* ".." removes the element before it (at the root it is dropped, at the
\* start of a relative path it is kept).
RECURSIVE CleanSegs(_, _, _)
CleanSegs(segs, out, rooted) ==
    IF segs = <<>> THEN out
    ELSE LET s == Head(segs)
             rest == Tail(segs)
         IN  IF s = <<>> \/ s = Dot THEN CleanSegs(rest, out, rooted)
             ELSE IF s = DotDot THEN
                 IF out # <<>> /\ out[Len(out)] # DotDot
                 THEN CleanSegs(rest, SubSeq(out, 1, Len(out) - 1), rooted)
                 ELSE IF rooted THEN CleanSegs(rest, out, rooted)
                 ELSE CleanSegs(rest, Append(out, s), rooted)
             ELSE CleanSegs(rest, Append(out, s), rooted)

\* filepath.Clean
Clean(path) ==
    IF path = <<>> THEN Dot
    ELSE LET rooted == path[1] = "/"
             segs == CleanSegs(Split(path, Sl), <<>>, rooted)
         IN  IF rooted THEN Sl \o StrJoin(segs, Sl)
             ELSE IF segs = <<>> THEN Dot
             ELSE StrJoin(segs, Sl)

\* filepath.Join: the elements from the first non-empty one on, joined by the
\* separator and cleaned; the empty string when every element is empty.
FilepathJoin(elems) ==
    LET ne == {i \in 1..Len(elems) : elems[i] # <<>>}
    IN  IF ne = {} THEN <<>>
        ELSE LET first == CHOOSE i \in ne : \A j \in ne : i <= j
             IN  Clean(StrJoin(SubSeq(elems, first, Len(elems)), Sl))

\* The path without its trailing separators (the first loop of filepath.Base).
RECURSIVE StripTrailingSl(_)
StripTrailingSl(path) ==
    IF path # <<>> /\ path[Len(path)] = "/"
    THEN StripTrailingSl(SubSeq(path, 1, Len(path) - 1))
    ELSE path

\* filepath.Base
Base(path) ==
    IF path = <<>> THEN Dot
    ELSE LET p == StripTrailingSl(path)
             parts == Split(p, Sl)
         IN  IF p = <<>> THEN Sl ELSE parts[Len(parts)]

\* filepath.Dir
Dir(path) ==
    LET slashes == {i \in 1..Len(path) : path[i] = "/"}
    IN  IF slashes = {} THEN Dot
        ELSE LET last == CHOOSE i \in slashes : \A j \in slashes : j <= i
             IN  Clean(SubSeq(path, 1, last))

----------------------------------------------------------------------------
(* Pod Locator                                                              *)

MaxPods == 3
PodNames == {"pod-a", "pod-b"}
PodPhases == {"Pending", "Running", "Failed"}
Pods == [name : PodNames, phase : PodPhases]

NoErr == [kind |-> "none", pod |-> "", phase |-> ""]

\* The scan of pods.Items for the first pod in phase Running: the index of the
\* pod the loop returns from, 0 when the loop runs to its end.
RECURSIVE FirstRunningFrom(_, _)
FirstRunningFrom(items, i) ==
    IF i > Len(items) THEN 0
    ELSE IF items[i].phase = "Running" THEN i
    ELSE FirstRunningFrom(items, i + 1)

FirstRunningLast(items) ==
    LET hits == {i \in 1..Len(items) : items[i].phase = "Running"}
    IN  IF hits = {} THEN 0 ELSE CHOOSE i \in hits : \A j \in hits : j <= i

FirstRunning(items) == FirstRunningFrom(items, 1)

\* GetPodNameWithContext: the pair (name, error) it returns.
GetPodNameResult(listOk, items) ==
    IF ~listOk THEN
        [name |-> "", err |-> [kind |-> "list", pod |-> "", phase |-> ""]]
    ELSE IF Len(items) = 0 THEN
        [name |-> "", err |-> [kind |-> "noPods", pod |-> "", phase |-> ""]]
    ELSE IF FirstRunning(items) # 0 THEN
        [name |-> items[FirstRunning(items)].name, err |-> NoErr]
    ELSE
        [name |-> "",
         err |-> [kind |-> "noRunning", pod |-> items[1].name,
                  phase |-> items[1].phase]]

LocInit ==
    /\ podItems \in UNION {[1..n -> Pods] : n \in 0..MaxPods}
    /\ locCalled = FALSE
    /\ locListOk = TRUE
    /\ locName = ""
    /\ locErr = NoErr

GetPodNameWithContext ==
    /\ ~locCalled
    /\ \E ok \in BOOLEAN :
          LET r == GetPodNameResult(ok, podItems)
          IN  /\ locListOk' = ok
              /\ locName' = r.name
              /\ locErr' = r.err
    /\ locCalled' = TRUE
    /\ UNCHANGED podItems
    /\ UNCHANGED <<colVars, repVars, tunVars, conVars>>

LocIdle ==
    /\ podItems = <<>>
    /\ locCalled = FALSE
    /\ locListOk = TRUE
    /\ locName = ""
    /\ locErr = NoErr

\* C1: when the List call succeeds, the call returns the name of the first
\* Running pod in listing order (skipping earlier non-running pods); an empty
\* list gives the 'no pods found' error; a non-empty list without a Running
\* pod gives the distinct 'no running pod' error carrying the name and phase
\* of the first listed pod; every failure returns the empty name.
C1_FirstRunningPod ==
    (locCalled /\ locListOk) =>
        /\ (\E i \in 1..Len(podItems) : podItems[i].phase = "Running") =>
              \E i \in 1..Len(podItems) :
                 /\ podItems[i].phase = "Running"
                 /\ \A j \in 1..(i - 1) : podItems[j].phase # "Running"
                 /\ locName = podItems[i].name
                 /\ locErr.kind = "none"
        /\ Len(podItems) = 0 => locErr.kind = "noPods"
        /\ (/\ Len(podItems) > 0
            /\ \A i \in 1..Len(podItems) : podItems[i].phase # "Running") =>
              /\ locErr.kind = "noRunning"
              /\ locErr.pod = podItems[1].name
              /\ locErr.phase = podItems[1].phase
        /\ locErr.kind # "none" => locName = ""

\* A call that skipped a non-running pod and returned a later Running one.
C1_Witness ==
    /\ locCalled /\ locListOk
    /\ Len(podItems) = 3
    /\ podItems[1].phase = "Pending"
    /\ podItems[2].phase = "Running"
    /\ podItems[3].phase = "Running"
    /\ podItems[2].name # podItems[1].name
    /\ podItems[3].name # podItems[2].name
    /\ locName = podItems[2].name
    /\ locErr.kind = "none"

----------------------------------------------------------------------------
(* Artifact Collector                                                       *)

\* ---- base64.StdEncoding ----
Pad == 64          \* '='
BadChar == 65      \* a character outside the alphabet
NewlineChar == 66  \* '\n', which DecodeString skips

\* EncodeToString: three bytes make four alphabet indices; a tail of one or
\* two bytes is padded.
RECURSIVE B64Encode(_)
B64Encode(b) ==
    IF Len(b) = 0 THEN <<>>
    ELSE IF Len(b) = 1 THEN
        <<b[1] \div 4, (b[1] % 4) * 16, Pad, Pad>>
    ELSE IF Len(b) = 2 THEN
        <<b[1] \div 4, (b[1] % 4) * 16 + (b[2] \div 16), (b[2] % 16) * 4, Pad>>
    ELSE
        <<b[1] \div 4, (b[1] % 4) * 16 + (b[2] \div 16),
          (b[2] % 16) * 4 + (b[3] \div 64), b[3] % 64>>
        \o B64Encode(SubSeq(b, 4, Len(b)))

IsB64Data(c) == c \in 0..63

DecodeFail == [ok |-> FALSE, bytes |-> <<>>]

\* One quantum of four characters; padding is legal in the last quantum only.
DecodeQuantumSwapped(q, last) ==
    IF \A i \in 1..4 : IsB64Data(q[i]) THEN
        [ok |-> TRUE,
         bytes |-> <<q[2] * 4 + (q[1] \div 16),
                     (q[2] % 16) * 16 + (q[3] \div 4),
                     (q[3] % 4) * 64 + q[4]>>]
    ELSE IF last /\ IsB64Data(q[1]) /\ IsB64Data(q[2]) /\ IsB64Data(q[3])
                 /\ q[4] = Pad THEN
        [ok |-> TRUE,
         bytes |-> <<q[2] * 4 + (q[1] \div 16),
                     (q[2] % 16) * 16 + (q[3] \div 4)>>]
    ELSE IF last /\ IsB64Data(q[1]) /\ IsB64Data(q[2])
                 /\ q[3] = Pad /\ q[4] = Pad THEN
        [ok |-> TRUE, bytes |-> <<q[2] * 4 + (q[1] \div 16)>>]
    ELSE DecodeFail

DecodeQuantum(q, last) ==
    IF \A i \in 1..4 : IsB64Data(q[i]) THEN
        [ok |-> TRUE,
         bytes |-> <<q[1] * 4 + (q[2] \div 16),
                     (q[2] % 16) * 16 + (q[3] \div 4),
                     (q[3] % 4) * 64 + q[4]>>]
    ELSE IF last /\ IsB64Data(q[1]) /\ IsB64Data(q[2]) /\ IsB64Data(q[3])
                 /\ q[4] = Pad THEN
        [ok |-> TRUE,
         bytes |-> <<q[1] * 4 + (q[2] \div 16),
                     (q[2] % 16) * 16 + (q[3] \div 4)>>]
    ELSE IF last /\ IsB64Data(q[1]) /\ IsB64Data(q[2])
                 /\ q[3] = Pad /\ q[4] = Pad THEN
        [ok |-> TRUE, bytes |-> <<q[1] * 4 + (q[2] \div 16)>>]
    ELSE DecodeFail

RECURSIVE DecodeQuanta(_)
DecodeQuanta(s) ==
    IF Len(s) = 0 THEN [ok |-> TRUE, bytes |-> <<>>]
    ELSE LET q == DecodeQuantum(SubSeq(s, 1, 4), Len(s) = 4)
             r == DecodeQuanta(SubSeq(s, 5, Len(s)))
         IN  IF q.ok /\ r.ok THEN [ok |-> TRUE, bytes |-> q.bytes \o r.bytes]
             ELSE DecodeFail

B64DecodeLenient(s) ==
    LET t == SelectSeq(s, LAMBDA c : c # NewlineChar)
        d == IF Len(t) % 4 # 0 THEN DecodeFail ELSE DecodeQuanta(t)
    IN  [ok |-> TRUE, bytes |-> d.bytes]

\* DecodeString: newlines are skipped, the rest is read in quanta of four.
B64Decode(s) ==
    LET t == SelectSeq(s, LAMBDA c : c # NewlineChar)
    IN  IF Len(t) % 4 # 0 THEN DecodeFail ELSE DecodeQuanta(t)

\* ---- the inputs: blobs, file names, responses ----
MaxBlobLen == 2
ByteVals == {104, 255}
Blobs == UNION {[1..n -> ByteVals] : n \in 0..MaxBlobLen}

\* Texts that are no base64 encoding: a short quantum, a character outside
\* the alphabet, padding alone.
MalformedB64 == {<<26>>, <<26, BadChar, Pad, Pad>>, <<Pad, Pad, Pad, Pad>>}
B64Texts == {B64Encode(b) : b \in Blobs} \cup MalformedB64

OutputDir == <<"/", "o">>
TestNames == {<<"t", "1">>, <<"t", "2">>}

FnMeta == <<"c", "o", "v", "m", "e", "t", "a", ".", "X">>
FnCounters ==
    <<"c", "o", "v", "c", "o", "u", "n", "t", "e", "r", "s", ".", "X">>
FnDotMeta == <<".", "/">> \o FnMeta
FnUpMeta == <<".", ".", "/">> \o FnMeta
FileNames == {FnMeta, FnCounters, FnDotMeta, FnUpMeta, <<>>}

\* A response body: the JSON of a CoverageResponse, or some other text.
JsonBodies ==
    [kind : {"json"}, text : {""},
     metaFilename : FileNames, metaData : B64Texts,
     countersFilename : FileNames, countersData : B64Texts]
TextBody(txt) ==
    [kind |-> "text", text |-> txt, metaFilename |-> <<>>, metaData |-> <<>>,
     countersFilename |-> <<>>, countersData |-> <<>>]
NoBody == TextBody("")
SampleJsonBody ==
    [kind |-> "json", text |-> "", metaFilename |-> FnMeta,
     metaData |-> B64Encode(<<104>>), countersFilename |-> FnCounters,
     countersData |-> B64Encode(<<255>>)]

StatusOK == 200
ErrStatuses == {201, 404, 500}
Responses ==
    [status : {StatusOK}, body : JsonBodies \cup {TextBody("not json")}]
    \cup [status : ErrStatuses,
          body : {TextBody("server error"), SampleJsonBody}]

\* ---- the disk ----
NoFiles == [p \in {} |-> <<>>]

\* The directories os.MkdirAll(dir) makes sure of: dir and its ancestors.
RECURSIVE Ancestors(_)
Ancestors(dir) ==
    IF dir = Sl \/ dir = Dot THEN {dir}
    ELSE {dir} \cup Ancestors(Dir(dir))

\* os.MkdirAll: fails when a file is in the way (or the system refuses).
MkdirAll(dirs, files, dir, sysOk) ==
    IF ~sysOk \/ Ancestors(dir) \cap DOMAIN files # {}
    THEN [ok |-> FALSE, dirs |-> dirs]
    ELSE [ok |-> TRUE, dirs |-> dirs \cup Ancestors(dir)]

\* os.WriteFile: opens with O_CREATE|O_TRUNC and writes. io says how the
\* system call sequence ends: "ok", "failOpen" (nothing changes) or
\* "failWrite" (the file is left truncated).
WriteFile(dirs, files, path, data, io) ==
    IF path \in dirs \/ Dir(path) \notin dirs \/ io = "failOpen"
    THEN [ok |-> FALSE, files |-> files]
    ELSE LET put(d) == [p \in DOMAIN files \cup {path} |->
                           IF p = path THEN d ELSE files[p]]
         IN  IF io = "ok" THEN [ok |-> TRUE, files |-> put(data)]
             ELSE [ok |-> FALSE, files |-> put(<<>>)]

\* What the environment may refuse during one call. The call stops at its
\* first failure, so one refusal per call covers every case.
Faults == {"none", "send", "mkdir", "metaOpen", "metaWrite", "countersOpen",
           "countersWrite"}

ColError(kind) == [kind |-> kind, code |-> 0, body |-> NoBody]

\* The status check of collectCoverageFromURL.
IsErrorStatusServerOnly(status) == status >= 500

IsErrorStatus(status) == status # StatusOK

CollectResultCountersFirst(dirs, files, testName, resp, fault) ==
    LET same(kind) == [dirs |-> dirs, files |-> files, err |-> ColError(kind)]
        meta == B64Decode(resp.body.metaData)
        counters == B64Decode(resp.body.countersData)
        testDir == FilepathJoin(<<OutputDir, testName>>)
        mk == MkdirAll(dirs, files, testDir, fault # "mkdir")
        metaPath == FilepathJoin(<<testDir, resp.body.metaFilename>>)
        counterPath == FilepathJoin(<<testDir, resp.body.countersFilename>>)
        w1 == WriteFile(mk.dirs, files, counterPath, counters.bytes,
                        IF fault = "countersOpen" THEN "failOpen"
                        ELSE IF fault = "countersWrite" THEN "failWrite"
                        ELSE "ok")
        w2 == WriteFile(mk.dirs, w1.files, metaPath, meta.bytes,
                        IF fault = "metaOpen" THEN "failOpen"
                        ELSE IF fault = "metaWrite" THEN "failWrite"
                        ELSE "ok")
    IN  IF fault = "send" THEN same("send")
        ELSE IF IsErrorStatus(resp.status) THEN
            [dirs |-> dirs, files |-> files,
             err |-> [kind |-> "status", code |-> resp.status,
                      body |-> resp.body]]
        ELSE IF resp.body.kind # "json" THEN same("decodeResponse")
        ELSE IF ~meta.ok THEN same("decodeMeta")
        ELSE IF ~counters.ok THEN same("decodeCounters")
        ELSE IF ~mk.ok THEN
            [dirs |-> mk.dirs, files |-> files, err |-> ColError("mkdir")]
        ELSE IF ~w1.ok THEN
            [dirs |-> mk.dirs, files |-> w1.files,
             err |-> ColError("writeCounters")]
        ELSE IF ~w2.ok THEN
            [dirs |-> mk.dirs, files |-> w2.files,
             err |-> ColError("writeMeta")]
        ELSE [dirs |-> mk.dirs, files |-> w2.files, err |-> ColError("none")]

\* collectCoverageFromURL: the disk it leaves and the error it returns.
CollectResult(dirs, files, testName, resp, fault) ==
    LET same(kind) == [dirs |-> dirs, files |-> files, err |-> ColError(kind)]
        meta == B64Decode(resp.body.metaData)
        counters == B64Decode(resp.body.countersData)
        testDir == FilepathJoin(<<OutputDir, testName>>)
        mk == MkdirAll(dirs, files, testDir, fault # "mkdir")
        metaPath == FilepathJoin(<<testDir, resp.body.metaFilename>>)
        w1 == WriteFile(mk.dirs, files, metaPath, meta.bytes,
                        IF fault = "metaOpen" THEN "failOpen"
                        ELSE IF fault = "metaWrite" THEN "failWrite"
                        ELSE "ok")
        counterPath == FilepathJoin(<<testDir, resp.body.countersFilename>>)
        w2 == WriteFile(mk.dirs, w1.files, counterPath, counters.bytes,
                        IF fault = "countersOpen" THEN "failOpen"
                        ELSE IF fault = "countersWrite" THEN "failWrite"
                        ELSE "ok")
    IN  IF fault = "send" THEN same("send")
        ELSE IF IsErrorStatus(resp.status) THEN
            [dirs |-> dirs, files |-> files,
             err |-> [kind |-> "status", code |-> resp.status,
                      body |-> resp.body]]
        ELSE IF resp.body.kind # "json" THEN same("decodeResponse")
        ELSE IF ~meta.ok THEN same("decodeMeta")
        ELSE IF ~counters.ok THEN same("decodeCounters")
        ELSE IF ~mk.ok THEN
            [dirs |-> mk.dirs, files |-> files, err |-> ColError("mkdir")]
        ELSE IF ~w1.ok THEN
            [dirs |-> mk.dirs, files |-> w1.files,
             err |-> ColError("writeMeta")]
        ELSE IF ~w2.ok THEN
            [dirs |-> mk.dirs, files |-> w2.files,
             err |-> ColError("writeCounters")]
        ELSE [dirs |-> mk.dirs, files |-> w2.files, err |-> ColError("none")]

\* The disk before the call: the output directory exists (NewClient makes
\* it); the test's subdirectory may exist already, with an older blob in it.
OldMetaPath == FilepathJoin(<<OutputDir, <<"t", "1">>, FnMeta>>)
ColDisks ==
    {[dirs |-> {Sl, OutputDir}, files |-> NoFiles],
     [dirs |-> {Sl, OutputDir, FilepathJoin(<<OutputDir, <<"t", "1">>>>)},
      files |-> NoFiles],
     [dirs |-> {Sl, OutputDir, FilepathJoin(<<OutputDir, <<"t", "1">>>>)},
      files |-> [p \in {OldMetaPath} |-> <<1, 2, 3>>]]}

ColIdle ==
    /\ colDirs = {Sl, OutputDir}
    /\ colFiles = NoFiles
    /\ colCalled = FALSE
    /\ colTest = <<>>
    /\ colResp = [status |-> 0, body |-> NoBody]
    /\ colErr = ColError("none")
    /\ colDirs0 = {Sl, OutputDir}
    /\ colFiles0 = NoFiles

ColInit ==
    /\ \E d \in ColDisks :
          /\ colDirs = d.dirs
          /\ colFiles = d.files
          /\ colDirs0 = d.dirs
          /\ colFiles0 = d.files
    /\ colCalled = FALSE
    /\ colTest = <<>>
    /\ colResp = [status |-> 0, body |-> NoBody]
    /\ colErr = ColError("none")

\* CollectCoverageFromURL / collectCoverageFromURL
CollectCoverageFromURL ==
    /\ ~colCalled
    /\ \E testName \in TestNames, resp \in Responses, fault \in Faults :
          LET r == CollectResult(colDirs, colFiles, testName, resp, fault)
          IN  /\ colTest' = testName
              /\ colResp' = IF fault # "send" THEN resp
                            ELSE [status |-> 0, body |-> NoBody]
              /\ colDirs' = r.dirs
              /\ colFiles' = r.files
              /\ colErr' = r.err
    /\ colCalled' = TRUE
    /\ UNCHANGED <<colDirs0, colFiles0>>
    /\ UNCHANGED <<locVars, repVars, tunVars, conVars>>

\* ---- claims about the collector ----

\* The file a path string names on disk.
ResolvedPath(test, filename) == Clean(OutputDir \o Sl \o test \o Sl \o filename)
HasContent(path, bytes) == path \in DOMAIN colFiles /\ colFiles[path] = bytes

\* C2 as stated: after a successful collection, for every pair of blobs and
\* every pair of file names of the response, <outputDir>/<testName>/
\* <meta_filename> holds exactly the bytes meta_data encodes and
\* <outputDir>/<testName>/<counters_filename> holds exactly the bytes
\* counters_data encodes, and the test subdirectory exists.
C2_Original ==
    (colCalled /\ colErr.kind = "none") =>
        \A m \in Blobs, c \in Blobs :
            (/\ colResp.body.metaData = B64Encode(m)
             /\ colResp.body.countersData = B64Encode(c)) =>
                /\ (OutputDir \o Sl \o colTest) \in colDirs
                /\ HasContent(ResolvedPath(colTest, colResp.body.metaFilename), m)
                /\ HasContent(ResolvedPath(colTest, colResp.body.countersFilename), c)

\* C2 as amended: the same, for file names that name two different files;
\* when both names resolve to one path, that file holds the counters bytes,
\* which are written last.
C2_BlobsPersisted ==
    (colCalled /\ colErr.kind = "none") =>
        \A m \in Blobs, c \in Blobs :
            (/\ colResp.body.metaData = B64Encode(m)
             /\ colResp.body.countersData = B64Encode(c)) =>
                LET mp == ResolvedPath(colTest, colResp.body.metaFilename)
                    cp == ResolvedPath(colTest, colResp.body.countersFilename)
                IN  /\ (OutputDir \o Sl \o colTest) \in colDirs
                    /\ HasContent(cp, c)
                    /\ mp # cp => HasContent(mp, m)

\* A successful collection that created the test subdirectory and wrote two
\* different blobs under the names the response gave.
C2_Witness ==
    /\ colCalled /\ colErr.kind = "none"
    /\ (OutputDir \o Sl \o colTest) \notin colDirs0
    /\ (OutputDir \o Sl \o colTest) \in colDirs
    /\ colResp.body.metaFilename = FnMeta
    /\ colResp.body.countersFilename = FnCounters
    /\ colResp.body.metaData = B64Encode(<<104, 255>>)
    /\ colResp.body.countersData = B64Encode(<<255>>)
    /\ HasContent(OutputDir \o Sl \o colTest \o Sl \o FnMeta, <<104, 255>>)
    /\ HasContent(OutputDir \o Sl \o colTest \o Sl \o FnCounters, <<255>>)

\* the files the call created or changed
WrittenPaths ==
    {p \in DOMAIN colFiles :
        p \notin DOMAIN colFiles0 \/ colFiles[p] # colFiles0[p]}

\* C15 as stated: every file the call writes is directly inside
\* <outputDir>/<testName>/, whatever file names the response carries.
C15_WritesInsideTestDir ==
    colCalled =>
        \A p \in WrittenPaths : Dir(p) = OutputDir \o Sl \o colTest

DiskUntouched == colDirs = colDirs0 /\ colFiles = colFiles0

\* C29: a 200 response whose body is no JSON, or whose metadata or counters
\* payload is no base64 text, makes the call return an error that names the
\* part (response, metadata, counters), and no file or directory has been
\* created or changed.
C29_DecodeFailureWritesNothing ==
    (colCalled /\ colResp.status = StatusOK)
    => /\ colResp.body.kind # "json"
            => colErr.kind = "decodeResponse" /\ DiskUntouched
       /\ (colResp.body.kind = "json"
             /\ colResp.body.metaData \in MalformedB64)
            => colErr.kind = "decodeMeta" /\ DiskUntouched
       /\ (colResp.body.kind = "json"
             /\ colResp.body.metaData \notin MalformedB64
             /\ colResp.body.countersData \in MalformedB64)
            => colErr.kind = "decodeCounters" /\ DiskUntouched

\* a call for a test without subdirectory whose response has a well-formed
\* metadata payload and a malformed counters payload
C29_Witness ==
    /\ colCalled /\ colResp.status = StatusOK
    /\ colResp.body.kind = "json"
    /\ colResp.body.metaFilename = FnMeta
    /\ colResp.body.countersFilename = FnCounters
    /\ colResp.body.metaData = B64Encode(<<104>>)
    /\ colResp.body.countersData \in MalformedB64
    /\ colErr.kind = "decodeCounters"
    /\ (OutputDir \o Sl \o colTest) \notin colDirs
    /\ colFiles = NoFiles

\* the file at path is as it was before the call
SameAsBefore(path) ==
    /\ path \in DOMAIN colFiles <=> path \in DOMAIN colFiles0
    /\ path \in DOMAIN colFiles => colFiles[path] = colFiles0[path]

\* what C30 says of a call whose response names the paths mp and cp
PerBlobWrites(mp, cp) ==
    /\ colErr.kind = "writeCounters"
         => \A m \in Blobs :
               colResp.body.metaData = B64Encode(m) => HasContent(mp, m)
    /\ (colErr.kind = "writeMeta" /\ cp # mp) => SameAsBefore(cp)

\* C30 as stated: when the write of the counters blob fails, the metadata
\* file holds the whole metadata blob; when the write of the metadata blob
\* fails, the counters file (another file than the metadata file) is not
\* written.
C30_Original ==
    colCalled
    => PerBlobWrites(ResolvedPath(colTest, colResp.body.metaFilename),
                     ResolvedPath(colTest, colResp.body.countersFilename))

\* C30: the same, when the two file names name two different files.
C30_PerBlobWrites ==
    (/\ colCalled
     /\ ResolvedPath(colTest, colResp.body.metaFilename)
           # ResolvedPath(colTest, colResp.body.countersFilename))
    => PerBlobWrites(ResolvedPath(colTest, colResp.body.metaFilename),
                     ResolvedPath(colTest, colResp.body.countersFilename))

\* a call whose counters write failed after the metadata blob was written
C30_Witness ==
    /\ colCalled /\ colErr.kind = "writeCounters"
    /\ colResp.body.metaFilename = FnMeta
    /\ colResp.body.countersFilename = FnCounters
    /\ colResp.body.metaData = B64Encode(<<104, 255>>)
    /\ HasContent(OutputDir \o Sl \o colTest \o Sl \o FnMeta, <<104, 255>>)
    /\ HasContent(OutputDir \o Sl \o colTest \o Sl \o FnCounters, <<>>)

IsSuccessStatus(status) == status \in 200..299

\* C3: a response whose status is not a success status makes the call return
\* an error that carries the status code and the response body, and the call
\* leaves every file and directory as it was.
C3_NonSuccessStatus ==
    (colCalled /\ colResp.status # 0 /\ ~IsSuccessStatus(colResp.status)) =>
        /\ colErr.kind = "status"
        /\ colErr.code = colResp.status
        /\ colErr.body = colResp.body
        /\ colDirs = colDirs0
        /\ colFiles = colFiles0

\* A 404 answer that carries a well-formed coverage payload: it is reported
\* as an error and nothing is written.
C3_Witness ==
    /\ colCalled
    /\ colResp.status = 404
    /\ colResp.body = SampleJsonBody
    /\ colErr.kind = "status" /\ colErr.code = 404
    /\ colFiles0 # NoFiles
    /\ colFiles = colFiles0

----------------------------------------------------------------------------
(* Text reports: the strings of the model                                   *)

NL == <<"\n">>
Colon == <<":">>
ModePrefix ==
    <<"m", "o", "d", "e", ":">>
ModeLine ==
    <<"m", "o", "d", "e", ":", " ", "a", "t", "o", "m", "i", "c">>
GoSuffix ==
    <<".", "g", "o">>
DirGit ==
    <<".", "g", "i", "t">>
DirVendor ==
    <<"v", "e", "n", "d", "o", "r">>
DirNodeModules ==
    <<"n", "o", "d", "e", "_", "m", "o", "d", "u", "l", "e", "s">>
CoverageServerGo ==
    <<"c", "o", "v", "e", "r", "a", "g", "e", "_", "s", "e", "r", "v", "e",
      "r", ".", "g", "o">>

\* The working directory of the client process.
Cwd ==
    <<"/", "w">>

\* Report paths: two files under the remote root /app/, one under another
\* remote root, one file of the remote tree that has no local counterpart,
\* and a path that exists locally as it is.
PathAppA ==
    <<"/", "a", "p", "p", "/", "p", "k", "g", "/", "a", ".", "g", "o">>
PathAppB ==
    <<"/", "a", "p", "p", "/", "p", "k", "g", "/", "b", ".", "g", "o">>
PathOtherC ==
    <<"/", "o", "t", "h", "e", "r", "/", "l", "i", "b", "/", "c", ".", "g",
      "o">>
PathAppServer ==
    <<"/", "a", "p", "p", "/", "c", "o", "v", "e", "r", "a", "g", "e", "_",
      "s", "e", "r", "v", "e", "r", ".", "g", "o">>
PathLocalA ==
    <<"/", "w", "/", "p", "r", "o", "j", "/", "p", "k", "g", "/", "a", ".",
      "g", "o">>

\* The rest of a data line: spans, statement count, execution count.
Rest1 ==
    <<"1", ".", "1", ",", "2", ".", "2", " ", "1", " ", "1">>
Rest0 ==
    <<"3", ".", "1", ",", "4", ".", "2", " ", "2", " ", "0">>

DataLines ==
    {PathAppA \o Colon \o Rest1, PathAppB \o Colon \o Rest0,
     PathOtherC \o Colon \o Rest1, PathAppServer \o Colon \o Rest1,
     PathLocalA \o Colon \o Rest0}

\* What `go tool covdata textfmt` writes: the mode line, then data lines,
\* every line ended by a newline.
MaxLines == 2
SynthReports ==
    LET bodies == UNION {[1..n -> DataLines] : n \in 0..MaxLines}
    IN  {StrJoin(<<ModeLine>> \o b, NL) \o NL : b \in bodies}

\* The reports a test directory may hold: those, and the same reports without
\* the final newline (as the package's tests write them).
Reports ==
    SynthReports \cup {SubSeq(r, 1, Len(r) - 1) : r \in SynthReports}

\* Local source files (absolute paths).
LocalProjA ==
    <<"/", "w", "/", "p", "r", "o", "j", "/", "p", "k", "g", "/", "a", ".",
      "g", "o">>
LocalProjB ==
    <<"/", "w", "/", "p", "r", "o", "j", "/", "p", "k", "g", "/", "b", ".",
      "g", "o">>
LocalProjC ==
    <<"/", "w", "/", "p", "r", "o", "j", "/", "l", "i", "b", "/", "c", ".",
      "g", "o">>
LocalZzA ==
    <<"/", "w", "/", "z", "z", "/", "p", "k", "g", "/", "a", ".", "g", "o">>
DirW ==
    <<"/", "w">>
DirProj ==
    <<"/", "w", "/", "p", "r", "o", "j">>

LocalTrees ==
    {{LocalProjA, LocalProjB},
     {LocalProjA, LocalProjB, LocalZzA},
     {LocalProjA, LocalProjB, LocalProjC}}
SourceDirs == {DirW, DirProj}

----------------------------------------------------------------------------
(* Filter                                                                   *)

\* The pattern loop of FilterCoverageReport: a line is dropped when it
\* contains one of the patterns; empty patterns are passed over.
ShouldFilterPrefix(line, patterns) ==
    \E i \in 1..Len(patterns) :
        patterns[i] # <<>> /\ HasPrefix(line, patterns[i])

ShouldFilter(line, patterns) ==
    \E i \in 1..Len(patterns) :
        patterns[i] # <<>> /\ Contains(line, patterns[i])

FilterLines(lines, patterns) ==
    SelectSeq(lines, LAMBDA line : ~ShouldFilter(line, patterns))

\* The patterns in force: the argument, or the client's defaults when the
\* argument has no elements.
EffectivePatterns(patterns, defaults) ==
    IF Len(patterns) = 0 THEN defaults ELSE patterns

\* What FilterCoverageReport writes to coverage_filtered.out for the data it
\* read from coverage.out.
FilterDataTrailingNewline(data, patterns, defaults) ==
    LET fp == EffectivePatterns(patterns, defaults)
    IN  IF Len(fp) = 0 THEN data
        ELSE StrJoin(FilterLines(Split(data, NL), fp), NL) \o NL

FilterData(data, patterns, defaults) ==
    LET fp == EffectivePatterns(patterns, defaults)
    IN  IF Len(fp) = 0 THEN data
        ELSE StrJoin(FilterLines(Split(data, NL), fp), NL)

\* The variadic argument: no patterns passed (nil), or a slice of patterns,
\* which may be empty.
PatBGo ==
    <<"b", ".", "g", "o">>
PatPkg ==
    <<"p", "k", "g", "/">>
PatMode ==
    <<"m", "o", "d", "e">>
PatCounts ==
    <<"2", " ", "0">>
PatUpper ==
    <<"P", "K", "G">>

PatternArgs ==
    {[isNil |-> TRUE, elems |-> <<>>], [isNil |-> FALSE, elems |-> <<>>]}
    \cup [isNil : {FALSE},
          elems : {<<CoverageServerGo>>, <<<<>>>>, <<<<>>, PatBGo>>,
                   <<PatPkg>>, <<PatMode>>, <<PatCounts, PatUpper>>}]
DefaultFilterSets == {<<CoverageServerGo>>, <<>>, <<PatBGo>>}

NoFile == [exists |-> FALSE, data |-> <<>>]
FileOf(data) == [exists |-> TRUE, data |-> data]

WriteFaults == {"none", "writeOpen", "write"}
FileFaults == {"read"} \cup WriteFaults

\* os.WriteFile on a report file, with what the system may do to it.
WriteReport(old, data, fault) ==
    IF fault = "writeOpen" THEN [ok |-> FALSE, file |-> old]
    ELSE IF fault = "write" THEN [ok |-> FALSE, file |-> FileOf(<<>>)]
    ELSE [ok |-> TRUE, file |-> FileOf(data)]

\* FilterCoverageReport: the filtered file it leaves and the error it returns.
FilterResult(cov, flt, arg, defaults, fault) ==
    IF ~cov.exists \/ fault = "read" THEN [flt |-> flt, err |-> "read"]
    ELSE LET w == WriteReport(flt, FilterData(cov.data, arg.elems, defaults),
                              fault)
         IN  [flt |-> w.file, err |-> IF w.ok THEN "none" ELSE "write"]

NoFlt == [called |-> FALSE, arg |-> [isNil |-> TRUE, elems |-> <<>>],
          in |-> <<>>, defaults |-> <<>>, err |-> "none"]

----------------------------------------------------------------------------
(* Path Remapper                                                            *)

\* detectContainerPaths, first loop: the file paths of the data lines; a path
\* equal to the one collected just before it is not collected again.
RECURSIVE CoverageFilesFrom(_, _)
CoverageFilesFrom(lines, acc) ==
    IF lines = <<>> THEN acc
    ELSE LET line == Head(lines)
             filePath == SplitN2(line, Colon)[1]
         IN  IF line = <<>> \/ HasPrefix(line, ModePrefix)
             THEN CoverageFilesFrom(Tail(lines), acc)
             ELSE IF Len(acc) = 0 \/ acc[Len(acc)] # filePath
             THEN CoverageFilesFrom(Tail(lines), Append(acc, filePath))
             ELSE CoverageFilesFrom(Tail(lines), acc)

CoverageFiles(lines) == CoverageFilesFrom(lines, <<>>)

\* filepath.Abs
FilepathAbs(p) ==
    IF p # <<>> /\ p[1] = "/" THEN Clean(p) ELSE Clean(Cwd \o Sl \o p)

TreeDirs(tree) == UNION {Ancestors(Dir(f)) : f \in tree}

IsNotExistAlways(tree, p) == TRUE

\* os.Stat followed by os.IsNotExist: true when nothing is at the path; a
\* path that runs through a file fails with another error and counts as
\* present.
IsNotExist(tree, p) ==
    IF p = <<>> THEN TRUE
    ELSE LET a == FilepathAbs(p)
         IN  /\ a \notin tree
             /\ a \notin TreeDirs(tree)
             /\ Ancestors(Dir(a)) \cap tree = {}

ContainerFilesAll(tree, coverageFiles) == coverageFiles

ContainerFiles(tree, coverageFiles) ==
    SelectSeq(coverageFiles, LAMBDA p : IsNotExist(tree, p))

SkipDirsNone == {}

SkipDirs == {DirGit, DirVendor, DirNodeModules}

\* filepath.Walk with the callback of detectContainerPaths: the .go files
\* under root that are in none of the skipped directories.
WalkGoFiles(tree, root) ==
    IF root \notin TreeDirs(tree) \/ Base(root) \in SkipDirs THEN {}
    ELSE LET prefix == IF root = Sl THEN Sl ELSE root \o Sl
         IN  {f \in tree :
                /\ HasPrefix(f, prefix)
                /\ HasSuffix(f, GoSuffix)
                /\ LET segs == Split(SubSeq(f, Len(prefix) + 1, Len(f)), Sl)
                   IN  \A i \in 1..(Len(segs) - 1) : segs[i] \notin SkipDirs}

\* localFilesByRelPath: root-relative path -> absolute path
LocalFilesByRelPath(tree, root) ==
    LET prefix == IF root = Sl THEN Sl ELSE root \o Sl
    IN  {[rel |-> SubSeq(f, Len(prefix) + 1, Len(f)), path |-> f] :
            f \in WalkGoFiles(tree, root)}

\* The suffix loop: the number of equal trailing parts, counted from the
\* file name backwards up to the first difference.
RECURSIVE SuffixScoreFrom(_, _, _, _)
SuffixScoreFrom(cParts, lParts, i, maxLen) ==
    IF i > maxLen THEN i - 1
    ELSE IF cParts[Len(cParts) - i + 1] = lParts[Len(lParts) - i + 1]
    THEN SuffixScoreFrom(cParts, lParts, i + 1, maxLen)
    ELSE i - 1

MatchScore(cParts, lParts) ==
    SuffixScoreFrom(cParts, lParts, 1,
                    IF Len(lParts) < Len(cParts) THEN Len(lParts)
                    ELSE Len(cParts))

\* The matches the candidate loop can end with for one container file. The
\* loop ranges over a Go map, whose order is not fixed, and keeps the first
\* candidate of the highest score it meets: any candidate of the highest
\* score can be that one.
BestMatches(containerFile, locals) ==
    LET containerPath == Clean(containerFile)
        cParts == Split(containerPath, Sl)
        cands == {l \in locals : Base(l.path) = Base(containerPath)}
        score(l) == MatchScore(cParts, Split(l.rel, Sl))
        best == IF cands = {} THEN 0
                ELSE CHOOSE s \in {score(l) : l \in cands} :
                        \A l \in cands : score(l) <= s
    IN  IF best = 0 THEN {}
        ELSE {[containerFile |-> containerFile, localFile |-> l.path,
               matchScore |-> best] : l \in {c \in cands : score(c) = best}}

\* The possible values of `matches`: one match per container file that has
\* one, in the order of the container files.
RECURSIVE MatchSeqs(_, _)
MatchSeqs(containerFiles, locals) ==
    IF containerFiles = <<>> THEN {<<>>}
    ELSE LET best == BestMatches(Head(containerFiles), locals)
             rest == MatchSeqs(Tail(containerFiles), locals)
         IN  IF best = {} THEN rest
             ELSE {<<m>> \o r : m \in best, r \in rest}

\* A root: the path without its last `score` parts, with a leading and a
\* trailing separator; the empty string when no part is left.
RootOf(path, score) ==
    LET parts == Split(Clean(path), Sl)
        rootPartsCount == Len(parts) - score
        root == Sl \o FilepathJoin(SubSeq(parts, 1, rootPartsCount))
    IN  IF rootPartsCount <= 0 THEN <<>>
        ELSE IF HasSuffix(root, Sl) THEN root
        ELSE root \o Sl

\* containerRootCounts and the roots of the highest count (the map's order
\* decides among them).
RootCount(ms, root) ==
    Cardinality({i \in 1..Len(ms) :
                    RootOf(ms[i].containerFile, ms[i].matchScore) = root})

BestContainerRoots(ms) ==
    LET roots == {RootOf(ms[i].containerFile, ms[i].matchScore) :
                     i \in 1..Len(ms)} \ {<<>>}
    IN  {r \in roots : \A r2 \in roots : RootCount(ms, r2) <= RootCount(ms, r)}

\* localRootCandidates, in the order of the matches
RECURSIVE LocalRootCandidates(_, _)
LocalRootCandidates(ms, bestContainerRoot) ==
    IF ms = <<>> THEN <<>>
    ELSE LET m == Head(ms)
             candidateRoot == RootOf(m.localFile, m.matchScore)
             rest == LocalRootCandidates(Tail(ms), bestContainerRoot)
         IN  IF HasPrefix(m.containerFile, bestContainerRoot)
                /\ candidateRoot # <<>>
             THEN <<candidateRoot>> \o rest
             ELSE rest

ShortestRootFirst(cands) == cands[1]

\* The shortest candidate, the first one among those of equal length.
ShortestRoot(cands) ==
    LET short == {i \in 1..Len(cands) :
                     \A j \in 1..Len(cands) : Len(cands[i]) <= Len(cands[j])}
    IN  cands[CHOOSE i \in short : \A j \in short : i <= j]

NoMapping == [found |-> FALSE, remote |-> <<>>, local |-> <<>>]

\* detectContainerPaths: the runs it can make: the matches it found and the
\* mapping it returns (NoMapping for nil).
DetectRuns(lines, tree, srcDir) ==
    LET containerFiles == ContainerFiles(tree, CoverageFiles(lines))
        locals == LocalFilesByRelPath(tree, FilepathAbs(srcDir))
        outcome(ms, root) ==
            LET cands == LocalRootCandidates(ms, root)
            IN  IF cands = <<>> THEN NoMapping
                ELSE [found |-> TRUE, remote |-> root,
                      local |-> ShortestRoot(cands)]
        roots(ms) ==
            [i \in 1..Len(ms) |->
                RootOf(ms[i].containerFile, ms[i].matchScore)]
    IN  IF containerFiles = <<>>
        THEN {[matches |-> <<>>, roots |-> <<>>, localRoots |-> <<>>,
               mapping |-> NoMapping]}
        ELSE UNION {IF BestContainerRoots(ms) = {}
                    THEN {[matches |-> ms, roots |-> roots(ms),
                           localRoots |-> <<>>, mapping |-> NoMapping]}
                    ELSE {[matches |-> ms, roots |-> roots(ms),
                           localRoots |-> LocalRootCandidates(ms, root),
                           mapping |-> outcome(ms, root)] :
                             root \in BestContainerRoots(ms)} :
                       ms \in MatchSeqs(containerFiles, locals)}

\* the mappings detectContainerPaths can return
DetectContainerPaths(lines, tree, srcDir) ==
    {d.mapping : d \in DetectRuns(lines, tree, srcDir)}

\* remapCoveragePaths, the rewriting of one line
RemapLineAppend(line, m) ==
    IF line = <<>> \/ HasPrefix(line, ModePrefix) THEN line
    ELSE LET parts == SplitN2(line, Colon)
         IN  IF Len(parts) < 2 THEN line
             ELSE (IF HasPrefix(parts[1], m.remote)
                   THEN m.local \o parts[1]
                   ELSE parts[1]) \o Colon \o parts[2]

RemapLine(line, m) ==
    IF line = <<>> \/ HasPrefix(line, ModePrefix) THEN line
    ELSE LET parts == SplitN2(line, Colon)
         IN  IF Len(parts) < 2 THEN line
             ELSE (IF HasPrefix(parts[1], m.remote)
                   THEN ReplaceFirst(parts[1], m.remote, m.local)
                   ELSE parts[1]) \o Colon \o parts[2]

RemapDataDropBlank(data, m) ==
    LET lines == SelectSeq(Split(data, NL), LAMBDA line : line # <<>>)
    IN  StrJoin([i \in 1..Len(lines) |-> RemapLine(lines[i], m)], NL)

RemapData(data, m) ==
    LET lines == Split(data, NL)
    IN  StrJoin([i \in 1..Len(lines) |-> RemapLine(lines[i], m)], NL)

\* remapCoveragePaths: the passes it can make over coverage.out: the report
\* it leaves, the error it returns, the mapping it committed to.
RemapOutcomes(cov, tree, srcDir) ==
    {[cov |-> cov, err |-> "read", mapping |-> NoMapping, wrote |-> FALSE,
      matches |-> <<>>, roots |-> <<>>, localRoots |-> <<>>]}
    \cup
    (IF ~cov.exists THEN {}
     ELSE UNION {IF ~d.mapping.found
                 THEN {[cov |-> cov, err |-> "none", mapping |-> d.mapping,
                        wrote |-> FALSE, matches |-> d.matches,
                        roots |-> d.roots, localRoots |-> d.localRoots]}
                 ELSE {[cov |-> WriteReport(cov,
                                            RemapData(cov.data, d.mapping),
                                            fault).file,
                        err |-> IF fault = "none" THEN "none" ELSE "write",
                        mapping |-> d.mapping, wrote |-> TRUE,
                        matches |-> d.matches, roots |-> d.roots,
                        localRoots |-> d.localRoots] :
                          fault \in WriteFaults} :
                   d \in DetectRuns(Split(cov.data, NL), tree, srcDir)})

NoPass == [valid |-> FALSE, in |-> <<>>, out |-> <<>>, err |-> "none",
           mapping |-> NoMapping, wrote |-> FALSE, matches |-> <<>>,
           roots |-> <<>>, localRoots |-> <<>>]
PassOf(in, o) ==
    [valid |-> TRUE, in |-> in, out |-> o.cov.data, err |-> o.err,
     mapping |-> o.mapping, wrote |-> o.wrote, matches |-> o.matches,
     roots |-> o.roots, localRoots |-> o.localRoots]
Rewrote(pass) == pass.valid /\ pass.mapping.found /\ pass.err = "none"

\* GenerateCoverageReport: what it returns once the remapping step is over.
GenerateErrPropagated(remapErr) == remapErr

GenerateErr(remapErr) == "none"

NoGen == [called |-> FALSE, synthOk |-> FALSE, report |-> <<>>,
          err |-> "none", remapRan |-> FALSE]

\* GenerateCoverageReport: the external tool fails, or writes coverage.out and
\* the remapping pass runs over it when remapping is enabled. Gives the
\* report file left, the record of the call and the record of the pass.
GenerateOutcomes(cov, enable, tree, srcDir) ==
    {[cov |-> cov,
      gen |-> [called |-> TRUE, synthOk |-> FALSE, report |-> <<>>,
               err |-> "generate", remapRan |-> FALSE],
      pass |-> NoPass]}
    \cup
    UNION {IF ~enable
           THEN {[cov |-> FileOf(report),
                  gen |-> [called |-> TRUE, synthOk |-> TRUE,
                           report |-> report, err |-> "none",
                           remapRan |-> FALSE],
                  pass |-> NoPass]}
           ELSE {[cov |-> o.cov,
                  gen |-> [called |-> TRUE, synthOk |-> TRUE,
                           report |-> report, err |-> GenerateErr(o.err),
                           remapRan |-> TRUE],
                  pass |-> PassOf(report, o)] :
                    o \in RemapOutcomes(FileOf(report), tree, srcDir)} :
             report \in SynthReports}

\* GenerateHTMLReport: `go tool cover -html` over the filtered report (over
\* coverage.out when there is none) succeeds and writes coverage.html, or
\* fails.
HtmlOutcomes(html) == {[html |-> TRUE, err |-> "none"],
                       [html |-> html, err |-> "html"]}

\* ProcessCoverageReports: what it returns once the HTML step is over.
ProcessErrAfterHtmlPropagated(htmlErr) == htmlErr

ProcessErrAfterHtml(htmlErr) == "none"

NoProc == [called |-> FALSE, err |-> "none", html |-> "notRun"]

----------------------------------------------------------------------------
(* Report operations: state and actions                                     *)

MaxPasses == 2

RepIdle ==
    /\ localTree = {}
    /\ sourceDir = Cwd
    /\ enablePathRemap = TRUE
    /\ defaultFilters = <<CoverageServerGo>>
    /\ covOut = NoFile
    /\ fltOut = NoFile
    /\ lastGen = NoGen
    /\ lastFlt = NoFlt
    /\ lastPass = NoPass
    /\ prevPass = NoPass
    /\ passes = 0
    /\ htmlOut = FALSE
    /\ lastProc = NoProc
    /\ fltLog = <<>>

\* A client whose test directory holds a synthesized report, before a filter
\* call; the default filters are the initial ones or were set by the caller.
FltInit ==
    /\ localTree = {}
    /\ sourceDir = Cwd
    /\ enablePathRemap = TRUE
    /\ defaultFilters \in DefaultFilterSets
    /\ covOut \in {NoFile} \cup {FileOf(r) : r \in Reports}
    /\ fltOut \in {NoFile, FileOf(ModeLine)}
    /\ lastGen = NoGen
    /\ lastFlt = NoFlt
    /\ lastPass = NoPass
    /\ prevPass = NoPass
    /\ passes = 0
    /\ htmlOut = FALSE
    /\ lastProc = NoProc
    /\ fltLog = <<>>

\* A client over a local disk, before the text report is generated.
RemInit ==
    /\ localTree \in LocalTrees
    /\ sourceDir \in SourceDirs
    /\ enablePathRemap \in BOOLEAN
    /\ defaultFilters = <<CoverageServerGo>>
    /\ covOut = NoFile
    /\ fltOut = NoFile
    /\ lastGen = NoGen
    /\ lastFlt = NoFlt
    /\ lastPass = NoPass
    /\ prevPass = NoPass
    /\ passes = 0
    /\ htmlOut = FALSE
    /\ lastProc = NoProc
    /\ fltLog = <<>>

FilterCoverageReport ==
    /\ ~lastFlt.called
    /\ \E arg \in PatternArgs, fault \in FileFaults :
          LET r == FilterResult(covOut, fltOut, arg, defaultFilters, fault)
          IN  /\ fltOut' = r.flt
              /\ lastFlt' = [called |-> TRUE, arg |-> arg,
                             in |-> covOut.data,
                             defaults |-> defaultFilters, err |-> r.err]
    /\ UNCHANGED <<htmlOut, lastProc, fltLog>>
    /\ UNCHANGED <<localTree, sourceDir, enablePathRemap, defaultFilters,
                   covOut, lastGen, lastPass, prevPass, passes>>
    /\ UNCHANGED <<locVars, colVars, tunVars, conVars>>

\* GenerateCoverageReport: the external tool writes coverage.out (or fails),
\* then the remapping pass runs over it when remapping is enabled.
GenerateCoverageReport ==
    /\ ~lastGen.called
    /\ \E g \in GenerateOutcomes(covOut, enablePathRemap, localTree,
                                  sourceDir) :
          /\ covOut' = g.cov
          /\ lastGen' = g.gen
          /\ IF g.gen.remapRan
             THEN lastPass' = g.pass /\ prevPass' = lastPass
             ELSE UNCHANGED <<lastPass, prevPass>>
    /\ UNCHANGED <<htmlOut, lastProc, fltLog>>
    /\ UNCHANGED <<localTree, sourceDir, enablePathRemap, defaultFilters,
                   fltOut, lastFlt, passes>>
    /\ UNCHANGED <<locVars, colVars, tunVars, conVars>>

\* ProcessCoverageReports: generate, then filter by the default filters, then
\* render the HTML report; the first two stop the call when they fail.
ProcessCoverageReports ==
    /\ ~lastProc.called
    /\ ~lastGen.called
    /\ \E g \in GenerateOutcomes(covOut, enablePathRemap, localTree,
                                  sourceDir) :
          /\ covOut' = g.cov
          /\ lastGen' = g.gen
          /\ IF g.gen.remapRan
             THEN lastPass' = g.pass /\ prevPass' = lastPass
             ELSE UNCHANGED <<lastPass, prevPass>>
          /\ IF g.gen.err # "none"
             THEN /\ lastProc' = [called |-> TRUE, err |-> "generate",
                                  html |-> "notRun"]
                  /\ UNCHANGED <<fltOut, lastFlt, htmlOut>>
             ELSE \E fault \in FileFaults :
                    LET arg == [isNil |-> TRUE, elems |-> <<>>]
                        r == FilterResult(g.cov, fltOut, arg, defaultFilters,
                                          fault)
                    IN  /\ fltOut' = r.flt
                        /\ lastFlt' = [called |-> TRUE, arg |-> arg,
                                       in |-> g.cov.data,
                                       defaults |-> defaultFilters,
                                       err |-> r.err]
                        /\ IF r.err # "none"
                           THEN /\ lastProc' = [called |-> TRUE,
                                                err |-> "filter",
                                                html |-> "notRun"]
                                /\ UNCHANGED htmlOut
                           ELSE \E h \in HtmlOutcomes(htmlOut) :
                                  /\ htmlOut' = h.html
                                  /\ lastProc' =
                                        [called |-> TRUE,
                                         err |-> ProcessErrAfterHtml(h.err),
                                         html |-> IF h.err = "none" THEN "ok"
                                                  ELSE "failed"]
    /\ UNCHANGED <<localTree, sourceDir, enablePathRemap, defaultFilters,
                   passes, fltLog>>
    /\ UNCHANGED <<locVars, colVars, tunVars, conVars>>

\* One more pass of remapCoveragePaths over the generated coverage.out.
RemapCoveragePaths ==
    /\ lastGen.called /\ lastGen.synthOk
    /\ passes < MaxPasses
    /\ \E o \in RemapOutcomes(covOut, localTree, sourceDir) :
          /\ covOut' = o.cov
          /\ lastPass' = PassOf(covOut.data, o)
          /\ prevPass' = lastPass
    /\ passes' = passes + 1
    /\ UNCHANGED <<htmlOut, lastProc, fltLog>>
    /\ UNCHANGED <<localTree, sourceDir, enablePathRemap, defaultFilters,
                   fltOut, lastGen, lastFlt>>
    /\ UNCHANGED <<locVars, colVars, tunVars, conVars>>

----------------------------------------------------------------------------
(* Filter: properties                                                       *)

\* p occurs in line as a literal substring
IsSubstring(p, line) ==
    \E k \in 0..(Len(line) - Len(p)) : SubSeq(line, k + 1, k + Len(p)) = p

IsDataLine(line) == line # <<>> /\ ~HasPrefix(line, ModePrefix)
DataLinesOf(data) == SelectSeq(Split(data, NL), IsDataLine)

FilterDone == lastFlt.called /\ lastFlt.err = "none"

C5_ExplicitEmptyOptOut ==
    (FilterDone /\ ~lastFlt.arg.isNil /\ lastFlt.arg.elems = <<>>)
    => fltOut.data = lastFlt.in

\* C6: filtering the filtered report again with the same patterns (and the
\* same defaults) yields the filtered report.
C6_FilterIdempotent ==
    FilterDone
    => FilterData(fltOut.data, lastFlt.arg.elems, lastFlt.defaults)
           = fltOut.data

\* a filter call that dropped something
C6_Witness ==
    /\ FilterDone
    /\ fltOut.data # lastFlt.in
    /\ Len(DataLinesOf(fltOut.data)) >= 1

\* a report with exactly one mode line, which is its first line
WellFormed(data) ==
    LET lines == Split(data, NL)
    IN  /\ Len(lines) >= 1
        /\ HasPrefix(lines[1], ModePrefix)
        /\ \A i \in 2..Len(lines) : ~HasPrefix(lines[i], ModePrefix)

\* C18: the filtered report of a well-formed report is well-formed: it has
\* exactly one mode line and that line is first, whatever the patterns.
C18_FilterKeepsModeLine ==
    (FilterDone /\ WellFormed(lastFlt.in)) => WellFormed(fltOut.data)

----------------------------------------------------------------------------
(* Path Remapper: properties                                                *)

AppRoot ==
    <<"/", "a", "p", "p", "/">>
ProjRoot ==
    <<"/", "w", "/", "p", "r", "o", "j", "/">>

\* the paths a report references
PathsOf(data) ==
    LET lines == DataLinesOf(data)
    IN  {SplitN2(lines[i], Colon)[1] : i \in 1..Len(lines)}

\* the local file a path under /app/ stands for
Counterpart(p) == ProjRoot \o SubSeq(p, Len(AppRoot) + 1, Len(p))

UnderSourceDir(f) == HasPrefix(f, sourceDir \o Sl)

\* the line with its path moved from /app/ to <abs>/proj/
MovedLine(line) ==
    IF IsDataLine(line)
    THEN ProjRoot \o SubSeq(line, Len(AppRoot) + 1, Len(line))
    ELSE line

\* A pass that ended without an I/O error over a report whose paths are all
\* under /app/, none of them on the local disk, each with its counterpart
\* under proj/ in the local source tree.
SingleRootPass ==
    /\ lastPass.valid /\ lastPass.err = "none"
    /\ PathsOf(lastPass.in) # {}
    /\ \A p \in PathsOf(lastPass.in) :
          /\ HasPrefix(p, AppRoot)
          /\ p \notin localTree
          /\ Counterpart(p) \in localTree
          /\ UnderSourceDir(Counterpart(p))

CommittedAppToProj ==
    /\ lastPass.mapping = [found |-> TRUE, remote |-> AppRoot,
                           local |-> ProjRoot]
    /\ LET lines == Split(lastPass.in, NL)
       IN  Split(lastPass.out, NL)
               = [i \in 1..Len(lines) |-> MovedLine(lines[i])]

C8_Original ==
    (Rewrote(prevPass) /\ lastPass.valid)
    => (~lastPass.mapping.found /\ lastPass.out = lastPass.in)

AllPathsLocal(data) == \A p \in PathsOf(data) : FilepathAbs(p) \in localTree

\* C8: the same, when every path of the rewritten report is a file of the
\* local disk.
C8_SecondPassAllLocal ==
    (Rewrote(prevPass) /\ lastPass.valid /\ AllPathsLocal(prevPass.out))
    => /\ lastPass.in = prevPass.out
       /\ ~lastPass.mapping.found
       /\ lastPass.out = lastPass.in

\* a second pass, without I/O error, over a rewritten report
C8_Witness ==
    /\ Rewrote(prevPass)
    /\ prevPass.out # prevPass.in
    /\ lastPass.valid /\ lastPass.err = "none"
    /\ PathsOf(prevPass.out) # {}
    /\ AllPathsLocal(prevPass.out)

\* C9: when the synthesis succeeded GenerateCoverageReport returns success
\* whatever the remapping step did, and without a committed mapping
\* coverage.out is the synthesized report.
C9_RemapNeverRaises ==
    (lastGen.called /\ lastGen.synthOk)
    => /\ lastGen.err = "none"
       /\ (passes = 0 /\ ~(lastGen.remapRan /\ lastPass.mapping.found))
             => covOut = FileOf(lastGen.report)

\* a call whose remapping step failed on the report file
C9_Witness ==
    /\ lastGen.called /\ lastGen.synthOk /\ lastGen.remapRan
    /\ passes = 0
    /\ lastPass.err # "none"

\* the text of a line before its first colon
PathOfLine(line) == SplitN2(line, Colon)[1]

\* C19: a pass that committed a mapping leaves as many lines as it read, in
\* their order; a line is changed exactly when its path starts with the
\* remote root, and then only that prefix is replaced by the local root;
\* every other line, the mode line and blank lines included, is identical.
C19_RewriteScope ==
    Rewrote(lastPass)
    => LET inL == Split(lastPass.in, NL)
           outL == Split(lastPass.out, NL)
           remote == lastPass.mapping.remote
           local == lastPass.mapping.local
       IN  /\ Len(outL) = Len(inL)
           /\ \A i \in 1..Len(inL) :
                 /\ HasPrefix(PathOfLine(inL[i]), remote)
                       => outL[i] = local \o SubSeq(inL[i], Len(remote) + 1,
                                                    Len(inL[i]))
                 /\ ~HasPrefix(PathOfLine(inL[i]), remote)
                       => outL[i] = inL[i]
                 /\ outL[i] # inL[i]
                       <=> HasPrefix(PathOfLine(inL[i]), remote)

\* a pass that committed /app/ and read a line under /app/ and a line under
\* /other/
C19_Witness ==
    /\ Rewrote(lastPass)
    /\ lastPass.mapping.remote = AppRoot
    /\ PathsOf(lastPass.in) = {PathAppA, PathOtherC}
    /\ PathsOf(lastPass.out) = {Counterpart(PathAppA), PathOtherC}

\* Reports whose lines of one file are not adjacent: up to MaxDetectLines
\* data lines over four files: two under /app/, one under /other/, and one
\* with a path that is not absolute.
MaxDetectLines == 3
PathRelA ==
    <<"a", "p", "p", "/", "p", "k", "g", "/", "a", ".", "g", "o">>
DetectLines ==
    {PathAppA \o Colon \o Rest1, PathAppB \o Colon \o Rest0,
     PathOtherC \o Colon \o Rest1, PathRelA \o Colon \o Rest1}
\* Local trees with files in skipped directories and with candidates of
\* different scores.
LocalVendorA ==
    <<"/", "w", "/", "p", "r", "o", "j", "/", "v", "e", "n", "d", "o", "r",
      "/", "p", "k", "g", "/", "a", ".", "g", "o">>
LocalGitB ==
    <<"/", "w", "/", "p", "r", "o", "j", "/", ".", "g", "i", "t", "/", "p",
      "k", "g", "/", "b", ".", "g", "o">>
LocalNodeC ==
    <<"/", "w", "/", "n", "o", "d", "e", "_", "m", "o", "d", "u", "l", "e",
      "s", "/", "l", "i", "b", "/", "c", ".", "g", "o">>
LocalCmdA ==
    <<"/", "w", "/", "c", "m", "d", "/", "a", ".", "g", "o">>
DetectTrees ==
    LocalTrees \cup {{LocalVendorA, LocalGitB, LocalNodeC, LocalCmdA},
                     {LocalProjA, LocalCmdA},
                     {LocalCmdA, LocalProjB}}
DetectReports ==
    LET bodies == UNION {[1..n -> DetectLines] : n \in 0..MaxDetectLines}
    IN  {StrJoin(<<ModeLine>> \o b, NL) \o NL : b \in bodies}

\* coverage.out as GenerateCoverageReport leaves it with remapping disabled;
\* remapCoveragePaths then runs over it.
DetInit ==
    /\ localTree \in DetectTrees
    /\ sourceDir = DirW
    /\ enablePathRemap = FALSE
    /\ defaultFilters = <<CoverageServerGo>>
    /\ \E r \in DetectReports :
          /\ covOut = FileOf(r)
          /\ lastGen = [called |-> TRUE, synthOk |-> TRUE, report |-> r,
                        err |-> "none", remapRan |-> FALSE]
    /\ fltOut = NoFile
    /\ lastFlt = NoFlt
    /\ lastPass = NoPass
    /\ prevPass = NoPass
    /\ passes = 0
    /\ htmlOut = FALSE
    /\ lastProc = NoProc
    /\ fltLog = <<>>

\* the reports with the data lines of the report in another order
LineOrders(n) ==
    {f \in [1..n -> 1..n] : \A i, j \in 1..n : f[i] = f[j] => i = j}
ReorderedReports(data) ==
    LET lines == DataLinesOf(data)
    IN  {StrJoin(<<ModeLine>> \o [i \in 1..Len(lines) |-> lines[f[i]]], NL)
            \o NL : f \in LineOrders(Len(lines))}

\* C20: the pass collects each path of the report once, and the mappings it
\* can commit to are those of any report with the same data lines in another
\* order.
C20_DistinctPathsOnce ==
    (lastPass.valid /\ lastPass.err # "read" /\ passes = 1)
    => LET files == CoverageFiles(Split(lastPass.in, NL))
       IN  /\ \A i, j \in 1..Len(files) : files[i] = files[j] => i = j
           /\ \A r \in ReorderedReports(lastPass.in) :
                 DetectContainerPaths(Split(r, NL), localTree, sourceDir)
                    = DetectContainerPaths(Split(lastPass.in, NL), localTree,
                                           sourceDir)

\* the paths of a report that are not on the local disk
RemotePaths(data) == {p \in PathsOf(data) : p \notin localTree}

\* a local file's path relative to the source directory
RelOf(f) == SubSeq(f, Len(sourceDir) + 2, Len(f))

InSkippedDir(f) ==
    LET segs == Split(RelOf(f), Sl)
    IN  \E i \in 1..(Len(segs) - 1) :
           segs[i] \in {DirGit, DirVendor, DirNodeModules}

\* the local source files a remote path can be matched with
CandidatesFor(p) ==
    {f \in localTree : /\ UnderSourceDir(f)
                       /\ HasSuffix(f, GoSuffix)
                       /\ Base(f) = Base(p)
                       /\ ~InSkippedDir(f)}

\* the number of identical trailing segments of two paths
TrailingEqual(a, b) ==
    LET n == IF Len(a) < Len(b) THEN Len(a) ELSE Len(b)
        eq == {k \in 0..n :
                 \A j \in 1..k : a[Len(a) - j + 1] = b[Len(b) - j + 1]}
    IN  CHOOSE k \in eq : \A k2 \in eq : k2 <= k

ScoreOf(p, f) == TrailingEqual(Split(p, Sl), Split(RelOf(f), Sl))

\* C21: every match of a pass pairs a remote path with a local source file of
\* the same name outside .git, vendor and node_modules; its score is the
\* number of identical trailing segments of the remote path and the file's
\* path relative to the source directory, it is positive and no candidate has
\* a higher one; a remote path has a match exactly when a candidate has a
\* positive score.
C21_SuffixMatchScore ==
    (lastPass.valid /\ lastPass.err # "read")
    => LET ms == lastPass.matches
       IN  /\ \A i \in 1..Len(ms) :
                 /\ ms[i].containerFile \in RemotePaths(lastPass.in)
                 /\ ms[i].localFile \in CandidatesFor(ms[i].containerFile)
                 /\ ms[i].matchScore
                       = ScoreOf(ms[i].containerFile, ms[i].localFile)
                 /\ ms[i].matchScore > 0
                 /\ \A f \in CandidatesFor(ms[i].containerFile) :
                       ScoreOf(ms[i].containerFile, f) <= ms[i].matchScore
           /\ \A p \in RemotePaths(lastPass.in) :
                 (\E i \in 1..Len(ms) : ms[i].containerFile = p)
                 <=> (\E f \in CandidatesFor(p) : ScoreOf(p, f) > 0)

\* a pass over a.go and b.go of /app/pkg/ with a.go under vendor/ and cmd/ and
\* b.go under .git/ only: the one match is a.go with cmd/a.go
C21_Witness ==
    /\ lastPass.valid /\ lastPass.err = "none"
    /\ {LocalVendorA, LocalGitB, LocalCmdA} \subseteq localTree
    /\ PathsOf(lastPass.in) = {PathAppA, PathAppB}
    /\ lastPass.matches = <<[containerFile |-> PathAppA,
                             localFile |-> LocalCmdA, matchScore |-> 1]>>

\* a path without its last n segments, and those segments
WithoutLast(p, n) ==
    LET segs == Split(p, Sl)
    IN  StrJoin(SubSeq(segs, 1, Len(segs) - n), Sl)
LastSegs(p, n) ==
    LET segs == Split(p, Sl)
    IN  StrJoin(SubSeq(segs, Len(segs) - n + 1, Len(segs)), Sl)

\* C22: for every match of a pass the derived remote root ends with a
\* separator, is a prefix of the remote path, and followed by the last
\* `score` segments of the remote path gives the remote path, for absolute and
\* for other remote paths.
C22_RootPairDerivation ==
    (lastPass.valid /\ lastPass.err # "read")
    => \A i \in 1..Len(lastPass.matches) :
          LET m == lastPass.matches[i]
              root == lastPass.roots[i]
          IN  /\ HasSuffix(root, Sl)
              /\ HasPrefix(m.containerFile, root)
              /\ root \o LastSegs(m.containerFile, m.matchScore)
                    = m.containerFile

\* the derived remote roots of a pass and their votes
DerivedRoots(pass) ==
    {pass.roots[i] : i \in 1..Len(pass.roots)} \ {<<>>}
Votes(pass, r) == Cardinality({i \in 1..Len(pass.roots) : pass.roots[i] = r})
TopRoots(pass) ==
    {r \in DerivedRoots(pass) :
        \A r2 \in DerivedRoots(pass) : Votes(pass, r2) <= Votes(pass, r)}

\* the local roots derived from the matches whose remote path starts with r
LocalsUnder(pass, r) ==
    {WithoutLast(pass.matches[i].localFile, pass.matches[i].matchScore)
        \o Sl :
        i \in {j \in 1..Len(pass.matches) :
                  HasPrefix(pass.matches[j].containerFile, r)}}

\* what the root commitment guarantees in both readings of C23
RootCommitment ==
    LET remote == lastPass.mapping.remote
        local == lastPass.mapping.local
        inL == Split(lastPass.in, NL)
        outL == Split(lastPass.out, NL)
    IN  /\ lastPass.mapping.found
             => /\ remote \in TopRoots(lastPass)
                /\ local \in LocalsUnder(lastPass, remote)
                /\ \A l \in LocalsUnder(lastPass, remote) :
                      Len(local) <= Len(l)
                /\ Len(outL) = Len(inL)
                /\ \A i \in 1..Len(inL) :
                      ~HasPrefix(PathOfLine(inL[i]), remote)
                         => outL[i] = inL[i]
        /\ DerivedRoots(lastPass) = {} => ~lastPass.mapping.found
        /\ ~lastPass.mapping.found
             => /\ \/ DerivedRoots(lastPass) = {}
                   \/ \E r \in TopRoots(lastPass) :
                         LocalsUnder(lastPass, r) = {}
                /\ lastPass.out = lastPass.in
                /\ ~lastPass.wrote

\* C23 as stated: besides, every remote path whose derived root is another
\* root than the committed one is left as it is.
C23_Original ==
    (lastPass.valid /\ lastPass.err = "none")
    => /\ RootCommitment
       /\ lastPass.mapping.found
            => \A i \in 1..Len(lastPass.matches) :
                  lastPass.roots[i] # lastPass.mapping.remote
                     => lastPass.matches[i].containerFile
                           \in PathsOf(lastPass.out)

\* C23: the committed remote root is a derived root of the most votes; the
\* committed local root is the shortest local root of the matches whose
\* remote path starts with it; the lines whose path does not start with the
\* committed remote root are left as they are; without a derived remote root,
\* or without a local root for the chosen one, no mapping is committed and
\* the report is not written.
C23_RootCommitment ==
    (lastPass.valid /\ lastPass.err = "none") => RootCommitment

\* a pass that committed /app/ -> /w/cmd/, the second and shorter of two
\* local roots, over a report that also has a path under /other/
C23_Witness ==
    /\ lastPass.valid /\ lastPass.err = "none"
    /\ lastPass.mapping.found
    /\ lastPass.mapping.remote = AppRoot
    /\ Len(lastPass.localRoots) = 2
    /\ lastPass.localRoots[1] # lastPass.mapping.local
    /\ lastPass.localRoots[2] = lastPass.mapping.local
    /\ PathOtherC \in PathsOf(lastPass.in)
    /\ PathOtherC \in PathsOf(lastPass.out)

\* C24: the mapping a pass committed to is the only one path detection can
\* return for the report it read and the local source tree.
C24_DetectionDeterministic ==
    (lastPass.valid /\ lastPass.err # "read")
    => \A m \in DetectContainerPaths(Split(lastPass.in, NL), localTree,
                                      sourceDir) :
          m = lastPass.mapping

\* C17: a pass that read a report whose paths are all files of the local
\* disk commits no mapping, returns no error and does not write the report
\* file, which is left as it was.
C17_NothingToRemap ==
    (lastPass.valid /\ lastPass.err # "read" /\ AllPathsLocal(lastPass.in))
    => /\ ~lastPass.mapping.found
       /\ lastPass.err = "none"
       /\ ~lastPass.wrote
       /\ lastPass.out = lastPass.in
       /\ covOut = FileOf(lastPass.in)

\* a pass over a report that references /w/proj/pkg/a.go, which is on disk
C17_Witness ==
    /\ lastPass.valid /\ lastPass.err = "none"
    /\ PathsOf(lastPass.in) = {PathLocalA}
    /\ PathLocalA \in localTree
    /\ ~lastPass.wrote

----------------------------------------------------------------------------
(* Transport Session                                                        *)

\* The ports the system may assign to the local end of the tunnel.
LocalPorts == {40001, 40002}

TunInit ==
    /\ tunPc = "start"
    /\ tunFwd = "notStarted"
    /\ tunReady = FALSE
    /\ tunStops = 0
    /\ tunOpen = "pending"
    /\ tunPort = 0
    /\ tunFwdAtRet = "notStarted"
    /\ tunCall = "pending"
    /\ tunMeta = "pending"
    /\ tunCtx \in BOOLEAN
    /\ tunReq = FALSE
    /\ tunWrites = {}

TunIdle ==
    /\ tunPc = "start"
    /\ tunFwd = "notStarted"
    /\ tunReady = FALSE
    /\ tunStops = 0
    /\ tunOpen = "pending"
    /\ tunPort = 0
    /\ tunFwdAtRet = "notStarted"
    /\ tunCall = "pending"
    /\ tunMeta = "pending"
    /\ tunCtx = FALSE
    /\ tunReq = FALSE
    /\ tunWrites = {}

\* the file savePodMetadata writes in the test directory
FnPodMetadata ==
    <<"m", "e", "t", "a", "d", "a", "t", "a", ".", "j", "s", "o", "n">>

FwdRunning(f) == f \in {"dialing", "listening", "forwarding"}

TunOthersUnchanged == UNCHANGED <<locVars, colVars, repVars, conVars>>

\* close(stopChan) on a channel closed `closes` times so far: the close of a
\* channel that is already closed panics.
CloseChan(closes) == [closes |-> closes + 1, panics |-> closes > 0]

\* setupPortForward up to the select: building the dialer or the forwarder
\* fails and the call returns, or the forwarding goroutine is started.
SetupPortForwardStart ==
    /\ tunPc = "start"
    /\ \E ok \in BOOLEAN :
          IF ok
          THEN /\ tunFwd' = "dialing"
               /\ tunPc' = "select"
               /\ UNCHANGED <<tunOpen, tunFwdAtRet, tunCall>>
          ELSE /\ tunOpen' = "setupError"
               /\ tunFwdAtRet' = tunFwd
               /\ tunCall' = "setupPortForwardError"
               /\ tunPc' = "done"
               /\ UNCHANGED tunFwd
    /\ UNCHANGED <<tunReady, tunStops, tunPort, tunCtx>>
    /\ UNCHANGED <<tunMeta, tunReq, tunWrites>>
    /\ TunOthersUnchanged

\* The goroutine: forwarder.ForwardPorts dials the pod, listens on the local
\* port, closes readyChan, then forwards until stopChan is closed or the
\* connection is lost. A failure ends the goroutine after a printed warning.
ForwardPortsDial ==
    /\ tunFwd = "dialing"
    /\ \E ok \in BOOLEAN :
          tunFwd' = IF ok THEN "listening" ELSE "exited"
    /\ UNCHANGED <<tunPc, tunReady, tunStops, tunOpen, tunPort, tunFwdAtRet,
                   tunCall, tunCtx>>
    /\ UNCHANGED <<tunMeta, tunReq, tunWrites>>
    /\ TunOthersUnchanged

ForwardPortsListen ==
    /\ tunFwd = "listening"
    /\ \E ok \in BOOLEAN :
          IF ok
          THEN tunFwd' = "forwarding" /\ tunReady' = TRUE
          ELSE tunFwd' = "exited" /\ UNCHANGED tunReady
    /\ UNCHANGED <<tunPc, tunStops, tunOpen, tunPort, tunFwdAtRet, tunCall,
                   tunCtx>>
    /\ UNCHANGED <<tunMeta, tunReq, tunWrites>>
    /\ TunOthersUnchanged

\* the forwarding ends: stopChan is closed, or the connection is lost
ForwardPortsReturn ==
    /\ tunFwd = "forwarding"
    /\ tunFwd' = "exited"
    /\ UNCHANGED <<tunPc, tunReady, tunStops, tunOpen, tunPort, tunFwdAtRet,
                   tunCall, tunCtx>>
    /\ UNCHANGED <<tunMeta, tunReq, tunWrites>>
    /\ TunOthersUnchanged

SelectReadyNoWait ==
    /\ tunPc = "select"
    /\ \E portsOk \in BOOLEAN, port \in LocalPorts :
          IF portsOk
          THEN /\ tunOpen' = "ok"
               /\ tunPort' = port
               /\ tunPc' = "sleep"
               /\ UNCHANGED <<tunStops, tunCall>>
          ELSE /\ tunStops' = CloseChan(tunStops).closes
               /\ tunOpen' = "getPortsError"
               /\ tunCall' = "setupPortForwardError"
               /\ tunPc' = "done"
               /\ UNCHANGED tunPort
    /\ tunFwdAtRet' = tunFwd
    /\ UNCHANGED <<tunFwd, tunReady, tunCtx>>
    /\ UNCHANGED <<tunMeta, tunReq, tunWrites>>
    /\ TunOthersUnchanged

\* select, case <-readyChan: GetPorts gives the assigned port, or fails.
SelectReady ==
    /\ tunPc = "select"
    /\ tunReady
    /\ \E portsOk \in BOOLEAN, port \in LocalPorts :
          IF portsOk
          THEN /\ tunOpen' = "ok"
               /\ tunPort' = port
               /\ tunPc' = "sleep"
               /\ UNCHANGED <<tunStops, tunCall>>
          ELSE /\ tunStops' = CloseChan(tunStops).closes
               /\ tunOpen' = "getPortsError"
               /\ tunCall' = "setupPortForwardError"
               /\ tunPc' = "done"
               /\ UNCHANGED tunPort
    /\ tunFwdAtRet' = tunFwd
    /\ UNCHANGED <<tunFwd, tunReady, tunCtx>>
    /\ UNCHANGED <<tunMeta, tunReq, tunWrites>>
    /\ TunOthersUnchanged

SelectTimeoutNoClose ==
    /\ tunPc = "select"
    /\ tunOpen' = "timeout"
    /\ tunFwdAtRet' = tunFwd
    /\ tunCall' = "setupPortForwardError"
    /\ tunPc' = "done"
    /\ UNCHANGED <<tunFwd, tunReady, tunStops, tunPort, tunCtx>>
    /\ UNCHANGED <<tunMeta, tunReq, tunWrites>>
    /\ TunOthersUnchanged

\* select, case <-time.After(30 * time.Second): stopChan is closed and the
\* call returns the timeout error.
SelectTimeout ==
    /\ tunPc = "select"
    /\ tunStops' = CloseChan(tunStops).closes
    /\ tunOpen' = "timeout"
    /\ tunFwdAtRet' = tunFwd
    /\ tunCall' = "setupPortForwardError"
    /\ tunPc' = "done"
    /\ UNCHANGED <<tunFwd, tunReady, tunPort, tunCtx>>
    /\ UNCHANGED <<tunMeta, tunReq, tunWrites>>
    /\ TunOthersUnchanged

\* time.Sleep(2 * time.Second)
SleepBeforeCollect ==
    /\ tunPc = "sleep"
    /\ tunPc' = "collect"
    /\ UNCHANGED <<tunFwd, tunReady, tunStops, tunOpen, tunPort, tunFwdAtRet,
                   tunCall, tunCtx>>
    /\ UNCHANGED <<tunMeta, tunReq, tunWrites>>
    /\ TunOthersUnchanged

CollectThroughTunnelDoubleClose ==
    /\ tunPc = "collect"
    /\ tunReq' = TRUE
    /\ \E ok \in BOOLEAN :
          IF ok
          THEN /\ tunPc' = "metadata"
               /\ tunWrites' = tunWrites \cup {FnMeta, FnCounters}
               /\ UNCHANGED <<tunStops, tunCall>>
          ELSE /\ tunCall' = "collectError"
               /\ \E w \in {{}, {FnMeta}} : tunWrites' = tunWrites \cup w
               /\ tunStops' = CloseChan(CloseChan(tunStops).closes).closes
               /\ tunPc' = "done"
    /\ UNCHANGED <<tunFwd, tunReady, tunOpen, tunPort, tunFwdAtRet, tunCtx>>
    /\ UNCHANGED tunMeta
    /\ TunOthersUnchanged

\* collectCoverageFromURL through the tunnel; on failure the call returns and
\* the deferred close(stopChan) runs.
CollectThroughTunnel ==
    /\ tunPc = "collect"
    /\ tunReq' = TRUE
    /\ \E ok \in BOOLEAN :
          IF ok
          THEN /\ tunPc' = "metadata"
               /\ tunWrites' = tunWrites \cup {FnMeta, FnCounters}
               /\ UNCHANGED <<tunStops, tunCall>>
          ELSE /\ tunCall' = "collectError"
               /\ \E w \in {{}, {FnMeta}} : tunWrites' = tunWrites \cup w
               /\ tunStops' = CloseChan(tunStops).closes
               /\ tunPc' = "done"
    /\ UNCHANGED <<tunFwd, tunReady, tunOpen, tunPort, tunFwdAtRet, tunCtx>>
    /\ UNCHANGED tunMeta
    /\ TunOthersUnchanged

\* savePodMetadata (a failure is only logged), then the call returns and the
\* deferred close(stopChan) runs.
SavePodMetadataAndReturn ==
    /\ tunPc = "metadata"
    /\ \E ok \in BOOLEAN :
          /\ tunMeta' = IF ok THEN "saved" ELSE "failed"
          /\ tunWrites' = IF ok THEN tunWrites \cup {FnPodMetadata}
                          ELSE tunWrites
    /\ UNCHANGED tunReq
    /\ tunCall' = "ok"
    /\ tunStops' = CloseChan(tunStops).closes
    /\ tunPc' = "done"
    /\ UNCHANGED <<tunFwd, tunReady, tunOpen, tunPort, tunFwdAtRet, tunCtx>>
    /\ TunOthersUnchanged

\* The caller's context is cancelled or its deadline passes.
ContextDone ==
    /\ ~tunCtx
    /\ tunCtx' = TRUE
    /\ UNCHANGED <<tunPc, tunFwd, tunReady, tunStops, tunOpen, tunPort,
                   tunFwdAtRet, tunCall>>
    /\ UNCHANGED <<tunMeta, tunReq, tunWrites>>
    /\ TunOthersUnchanged

\* C26: the coverage request is sent only when the tunnel has signalled
\* readiness, setupPortForward has returned its local port and the stop has
\* not been issued; when setupPortForward fails no request is ever sent and
\* the call writes no file.
C26_CollectThroughReadyTunnel ==
    /\ [][(tunReq' /\ ~tunReq)
            => /\ tunReady
               /\ tunOpen = "ok"
               /\ tunPort \in LocalPorts
               /\ tunStops = 0]_vars
    /\ [](tunOpen \notin {"pending", "ok"}
            => /\ ~tunReq
               /\ tunWrites = {}
               /\ tunPc = "done")

\* a call that sent the request through the ready tunnel and returned
C26_Witness ==
    /\ tunReq /\ tunReady /\ tunOpen = "ok"
    /\ tunCall = "ok" /\ tunStops = 1
    /\ {FnMeta, FnCounters} \subseteq tunWrites

\* C27: when the caller's context is done while setupPortForward waits in its
\* select, the wait does not end by readiness or by the 30 s timeout.
C27_OpenStopsOnCancel ==
    [][(tunPc = "select" /\ tunCtx /\ tunPc' # "select")
         => tunOpen' \notin {"ok", "timeout"}]_vars

\* C28: when the forwarding goroutine has failed before readiness,
\* setupPortForward returns an error that carries that failure.
C28_DialFailurePropagated ==
    (tunPc = "done" /\ tunFwdAtRet = "exited" /\ ~tunReady)
    => tunOpen = "forwardError"

\* C10 as stated: when setupPortForward returns the timeout error, the
\* forwarding goroutine is no longer running at that moment.
C10_NoTaskAtTimeoutReturn ==
    (tunOpen = "timeout") => ~FwdRunning(tunFwdAtRet)

\* The state of the session, read from its two signals: closed once the stop
\* signal was issued, else ready once readyChan is closed, else pending.
SessionState ==
    IF tunStops > 0 THEN "Closed"
    ELSE IF tunReady THEN "Ready"
    ELSE "Pending"

SessionMoves ==
    {<<"Pending", "Ready">>, <<"Pending", "Closed">>, <<"Ready", "Closed">>}

C12_StopIssuedExactlyOnce ==
    (tunPc = "done" /\ tunFwd # "notStarted") => tunStops = 1

\* the call returned success although savePodMetadata failed
C12_Witness ==
    /\ tunPc = "done"
    /\ tunCall = "ok"
    /\ tunMeta = "failed"
    /\ tunFwd # "notStarted"
    /\ tunStops = 1

----------------------------------------------------------------------------
(* Default filters                                                          *)

MaxConfigCalls == 2

\* the arguments of the calls
SetArgs == {<<>>, <<PatBGo>>}
AddArgs == {PatPkg}

\* A new client with a synthesized report in its test directory.
DefInit ==
    /\ localTree = {}
    /\ sourceDir = Cwd
    /\ enablePathRemap = TRUE
    /\ defaultFilters = <<CoverageServerGo>>
    /\ covOut \in {FileOf(r) : r \in SynthReports}
    /\ fltOut = NoFile
    /\ lastGen = NoGen
    /\ lastFlt = NoFlt
    /\ lastPass = NoPass
    /\ prevPass = NoPass
    /\ passes = 0
    /\ htmlOut = FALSE
    /\ lastProc = NoProc
    /\ fltLog = <<>>

\* AddDefaultFilter: append(c.defaultFilters, pattern)
AppendFilterFirst(filters, pattern) == <<pattern>> \o filters

AppendFilter(filters, pattern) == Append(filters, pattern)

\* The calls that configure the client, made before the filter call.
SetDefaultFilters ==
    /\ ~lastFlt.called
    /\ Len(fltLog) < MaxConfigCalls
    /\ \E patterns \in SetArgs :
          /\ defaultFilters' = patterns
          /\ fltLog' = Append(fltLog, [op |-> "set", patterns |-> patterns])
    /\ UNCHANGED <<localTree, sourceDir, enablePathRemap, covOut, fltOut,
                   lastGen, lastFlt, lastPass, prevPass, passes, htmlOut,
                   lastProc>>
    /\ UNCHANGED <<locVars, colVars, tunVars, conVars>>

AddDefaultFilter ==
    /\ ~lastFlt.called
    /\ Len(fltLog) < MaxConfigCalls
    /\ \E pattern \in AddArgs :
          /\ defaultFilters' = AppendFilter(defaultFilters, pattern)
          /\ fltLog' = Append(fltLog, [op |-> "add", patterns |-> <<pattern>>])
    /\ UNCHANGED <<localTree, sourceDir, enablePathRemap, covOut, fltOut,
                   lastGen, lastFlt, lastPass, prevPass, passes, htmlOut,
                   lastProc>>
    /\ UNCHANGED <<locVars, colVars, tunVars, conVars>>

\* the default set the calls of the log should leave
LastSetIn(log) ==
    LET sets == {i \in 1..Len(log) : log[i].op = "set"}
    IN  IF sets = {} THEN 0 ELSE CHOOSE i \in sets : \A j \in sets : j <= i

ExpectedDefaults(log) ==
    LET k == LastSetIn(log)
        adds == SelectSeq(SubSeq(log, k + 1, Len(log)),
                          LAMBDA c : c.op = "add")
    IN  (IF k = 0 THEN <<CoverageServerGo>> ELSE log[k].patterns)
        \o [i \in 1..Len(adds) |-> adds[i].patterns[1]]

\* the report without the lines that contain a non-empty pattern of pats
WithoutMatching(data, pats) ==
    StrJoin(SelectSeq(Split(data, NL),
                      LAMBDA line :
                         ~\E i \in 1..Len(pats) :
                             pats[i] # <<>> /\ IsSubstring(pats[i], line)),
            NL)

\* C16: the default set is the initial one, or the argument of the last
\* SetDefaultFilters, followed by the patterns added since, in call order; a
\* filter call without patterns filters by that set (copies the report when
\* the set is empty), a call with patterns filters by its patterns only.
C16_DefaultFilterSet ==
    /\ defaultFilters = ExpectedDefaults(fltLog)
    /\ (FilterDone /\ lastFlt.arg.isNil) =>
          fltOut.data = IF ExpectedDefaults(fltLog) = <<>> THEN lastFlt.in
                        ELSE WithoutMatching(lastFlt.in,
                                             ExpectedDefaults(fltLog))
    /\ (FilterDone /\ lastFlt.arg.elems # <<>>) =>
          fltOut.data = WithoutMatching(lastFlt.in, lastFlt.arg.elems)

\* a filter call without patterns after a set and an add that dropped a line
C16_Witness ==
    /\ FilterDone /\ lastFlt.arg.isNil
    /\ Len(fltLog) = 2
    /\ fltLog[1].op = "set" /\ fltLog[2].op = "add"
    /\ Len(defaultFilters) = 2
    /\ fltOut.data # lastFlt.in

----------------------------------------------------------------------------
(* ProcessCoverageReports: properties                                       *)

\* A client over a local disk, before ProcessCoverageReports.
ProcInit ==
    /\ localTree \in LocalTrees
    /\ sourceDir = DirW
    /\ enablePathRemap \in BOOLEAN
    /\ defaultFilters \in DefaultFilterSets
    /\ covOut = NoFile
    /\ fltOut = NoFile
    /\ lastGen = NoGen
    /\ lastFlt = NoFlt
    /\ lastPass = NoPass
    /\ prevPass = NoPass
    /\ passes = 0
    /\ htmlOut = FALSE
    /\ lastProc = NoProc
    /\ fltLog = <<>>

\* C13: a failed synthesis is returned and neither the filter nor the HTML
\* step runs; a failed filter is returned and the HTML step does not run; a
\* failed HTML step is not returned, and both text reports are there.
C13_ProcessErrorPolicy ==
    lastProc.called =>
       /\ ~lastGen.synthOk =>
             /\ lastProc.err = "generate"
             /\ ~lastFlt.called /\ fltOut = NoFile
             /\ lastProc.html = "notRun" /\ ~htmlOut
       /\ (lastGen.synthOk /\ lastFlt.err # "none") =>
             /\ lastProc.err = "filter"
             /\ lastProc.html = "notRun" /\ ~htmlOut
       /\ (lastGen.synthOk /\ lastFlt.err = "none") =>
             /\ lastFlt.called
             /\ lastProc.err = "none"
             /\ lastProc.html # "notRun"
             /\ covOut.exists /\ fltOut.exists

\* C25: the filter step of a call reads the report as it was synthesized, no
\* remapping pass having rewritten it before.
C25_FilterReadsSynthesized ==
    (/\ lastProc.called /\ lastFlt.called /\ lastFlt.err # "read"
     /\ lastGen.remapRan => lastPass.err = "none")
    => lastFlt.in = lastGen.report

\* a call whose HTML step failed
C13_Witness ==
    /\ lastProc.called
    /\ lastProc.html = "failed"
    /\ lastProc.err = "none"
    /\ covOut.exists /\ fltOut.exists /\ ~htmlOut

----------------------------------------------------------------------------
(* Concurrent collections                                                   *)

\* Two calls of collectCoverageFromURL on one client, each a goroutine of the
\* caller, interleaved at their file-system calls.
Procs == {1, 2}

TestDot1 == <<".", "/", "t", "1">>
ConTestNames == TestNames \cup {TestDot1}

\* The bytes the endpoint of collection i returns (both blobs).
ConBlob(i) == IF i = 1 THEN <<104>> ELSE <<255>>

ConResponses(i) ==
    [status : {StatusOK},
     body : [kind : {"json"}, text : {""},
             metaFilename : {FnMeta, FnUpMeta},
             metaData : {B64Encode(ConBlob(i))},
             countersFilename : {FnCounters},
             countersData : {B64Encode(ConBlob(i))}]]
    \cup [status : {500}, body : {TextBody("server error")}]

ConNotStarted(test) ==
    [pc |-> "start", test |-> test,
     resp |-> [status |-> 0, body |-> NoBody], err |-> "none",
     written |-> {}]

ConInit ==
    /\ conDirs = {Sl, OutputDir}
    /\ conFiles = NoFiles
    /\ \E t1 \in ConTestNames, t2 \in ConTestNames :
          /\ t1 # t2
          /\ conProc = [i \in Procs |->
                           ConNotStarted(IF i = 1 THEN t1 ELSE t2)]

ConIdle ==
    /\ conDirs = {Sl, OutputDir}
    /\ conFiles = NoFiles
    /\ conProc = [i \in Procs |-> ConNotStarted(<<>>)]

ConOthersUnchanged == UNCHANGED <<locVars, colVars, repVars, tunVars>>

ConTestDir(i) == FilepathJoin(<<OutputDir, conProc[i].test>>)

\* the request and the checks of the response, up to the decoded payloads
ConRequest(i) ==
    /\ conProc[i].pc = "start"
    /\ \E resp \in ConResponses(i) :
          conProc' = [conProc EXCEPT
                        ![i].resp = resp,
                        ![i].err = IF IsErrorStatus(resp.status)
                                   THEN "status" ELSE "none",
                        ![i].pc = IF IsErrorStatus(resp.status)
                                  THEN "done" ELSE "mkdir"]
    /\ UNCHANGED <<conDirs, conFiles>>
    /\ ConOthersUnchanged

\* os.MkdirAll(testDir)
ConMkdirAll(i) ==
    /\ conProc[i].pc = "mkdir"
    /\ LET mk == MkdirAll(conDirs, conFiles, ConTestDir(i), TRUE)
       IN  /\ conDirs' = mk.dirs
           /\ conProc' = [conProc EXCEPT
                            ![i].err = IF mk.ok THEN "none" ELSE "mkdir",
                            ![i].pc = IF mk.ok THEN "writeMeta" ELSE "done"]
    /\ UNCHANGED conFiles
    /\ ConOthersUnchanged

\* os.WriteFile(metaPath, metaData)
ConWriteMeta(i) ==
    /\ conProc[i].pc = "writeMeta"
    /\ LET body == conProc[i].resp.body
           metaPath == FilepathJoin(<<ConTestDir(i), body.metaFilename>>)
           w == WriteFile(conDirs, conFiles, metaPath,
                          B64Decode(body.metaData).bytes, "ok")
       IN  /\ conFiles' = w.files
           /\ conProc' = [conProc EXCEPT
                            ![i].written = IF w.ok THEN @ \cup {metaPath}
                                           ELSE @,
                            ![i].err = IF w.ok THEN "none" ELSE "writeMeta",
                            ![i].pc = IF w.ok THEN "writeCounters"
                                      ELSE "done"]
    /\ UNCHANGED conDirs
    /\ ConOthersUnchanged

\* os.WriteFile(counterPath, counterData), then the call returns
ConWriteCounters(i) ==
    /\ conProc[i].pc = "writeCounters"
    /\ LET body == conProc[i].resp.body
           counterPath == FilepathJoin(<<ConTestDir(i),
                                         body.countersFilename>>)
           w == WriteFile(conDirs, conFiles, counterPath,
                          B64Decode(body.countersData).bytes, "ok")
       IN  /\ conFiles' = w.files
           /\ conProc' = [conProc EXCEPT
                            ![i].written = IF w.ok THEN @ \cup {counterPath}
                                           ELSE @,
                            ![i].err = IF w.ok THEN "none"
                                       ELSE "writeCounters",
                            ![i].pc = "done"]
    /\ UNCHANGED conDirs
    /\ ConOthersUnchanged

\* the files collection i leaves when it runs alone on the initial disk
AloneFiles(i) ==
    CollectResult({Sl, OutputDir}, NoFiles, conProc[i].test,
                  conProc[i].resp, "none").files

BothDone == \A i \in Procs : conProc[i].pc = "done"

\* C14 as stated: with distinct test names, no path is written by both
\* collections and each collection's files are those it leaves when it runs
\* alone.
C14_CollectionsIsolated ==
    BothDone =>
       /\ conProc[1].written \cap conProc[2].written = {}
       /\ \A i \in Procs : \A p \in DOMAIN AloneFiles(i) :
             p \in DOMAIN conFiles /\ conFiles[p] = AloneFiles(i)[p]

----------------------------------------------------------------------------
(* Specifications                                                           *)

InitLocator == LocInit /\ ColIdle /\ RepIdle /\ TunIdle /\ ConIdle
SpecLocator == InitLocator /\ [][GetPodNameWithContext]_vars

InitCollect == ColInit /\ LocIdle /\ RepIdle /\ TunIdle /\ ConIdle
SpecCollect == InitCollect /\ [][CollectCoverageFromURL]_vars

InitFilter == FltInit /\ LocIdle /\ ColIdle /\ TunIdle /\ ConIdle
SpecFilter == InitFilter /\ [][FilterCoverageReport]_vars

InitRemap == RemInit /\ LocIdle /\ ColIdle /\ TunIdle /\ ConIdle
NextRemap == GenerateCoverageReport \/ RemapCoveragePaths
SpecRemap == InitRemap /\ [][NextRemap]_vars

InitTunnel == TunInit /\ LocIdle /\ ColIdle /\ RepIdle /\ ConIdle
NextTunnel ==
    \/ SetupPortForwardStart
    \/ ForwardPortsDial
    \/ ForwardPortsListen
    \/ ForwardPortsReturn
    \/ SelectReady
    \/ SelectTimeout
    \/ SleepBeforeCollect
    \/ CollectThroughTunnel
    \/ SavePodMetadataAndReturn
    \/ ContextDone
SpecTunnel == InitTunnel /\ [][NextTunnel]_vars

InitProcess == ProcInit /\ LocIdle /\ ColIdle /\ TunIdle /\ ConIdle
SpecProcess == InitProcess /\ [][ProcessCoverageReports]_vars

InitConcurrent == ConInit /\ LocIdle /\ ColIdle /\ RepIdle /\ TunIdle
NextConcurrent ==
    \E i \in Procs :
        \/ ConRequest(i)
        \/ ConMkdirAll(i)
        \/ ConWriteMeta(i)
        \/ ConWriteCounters(i)
SpecConcurrent == InitConcurrent /\ [][NextConcurrent]_vars

InitDefaults == DefInit /\ LocIdle /\ ColIdle /\ TunIdle /\ ConIdle
NextDefaults ==
    \/ SetDefaultFilters
    \/ AddDefaultFilter
    \/ FilterCoverageReport
SpecDefaults == InitDefaults /\ [][NextDefaults]_vars

InitDetect == DetInit /\ LocIdle /\ ColIdle /\ TunIdle /\ ConIdle
NextDetect == RemapCoveragePaths
SpecDetect == InitDetect /\ [][NextDetect]_vars

====
